---- MODULE Spec2Model ----
(***************************************************************************)
(* Verification model of the claude-usage-dashboard backend:               *)
(*   - DataCache / CacheEntry and DataService._load_entries                *)
(*     (backend/app/services/data_service.py), run by concurrent threads   *)
(*     that share the one lock of the cache;                               *)
(*   - DataService._calculate_session_info as a pure function of the       *)
(*     records and "now";                                                  *)
(*   - ConnectionManager and broadcast_loop (backend/app/routers/          *)
(*     websocket.py), coroutines of one event loop that interleave at      *)
(*     their await points.                                                 *)
(* Each part has its own specification; the variables of the other parts   *)
(* stay at their initial values.                                           *)
(***************************************************************************)
EXTENDS Integers, Sequences, FiniteSets, TLC

VARIABLES
    \* ---- DataCache and its callers ----
    clock,      \* time.time(), in seconds
    cache,      \* DataCache._cache: key -> None | Some(CacheEntry)
    lock,       \* DataCache._lock: the thread holding it, or NoThread
    pc,         \* per thread: position in the operation it runs
    call,       \* per thread: "load" inside _load_entries, else "none"
    key,        \* per thread: the key of the running cache operation
    val,        \* per thread: the data argument of set
    ttl,        \* per thread: the ttl argument of set
    entry,      \* per thread: the local `entry` of get
    ret,        \* per thread: the value get returns
    result,     \* per thread: the value _load_entries returns
    lastSet,    \* history: per key, the entry written by the latest set
                \* and not cleared since (None when there is none)
    snap,       \* history: per thread, what lastSet made visible when the
                \* get of the running operation tested the entry
    srcCalls,   \* history: per thread, source calls of the running call
    raised,     \* history: per thread, the source raised in this call
    didDel,     \* history: per thread, this operation deleted an entry
    didSet,     \* history: per thread, this operation stored an entry
    readAt,     \* history: per thread, when the source was read for the
                \* data the running operation has in hand
    origin,     \* history: per key, when the source was read for the data
                \* last stored under the key
    \* ---- _calculate_session_info ----
    entries,    \* the record list passed in
    now,        \* datetime.now(), in hours
    later,      \* a second, later reading of the clock
    info,       \* the SessionInfoResponse computed for (entries, now)
    infoLater,  \* the SessionInfoResponse computed for (entries, later)
    spc,        \* position of the session computation
    \* ---- the statistics: token breakdown, burn rate, history, models ----
    usage,      \* the record list the statistic is computed of
    nowMin,     \* datetime.now(), in minutes of UTC
    zone,       \* the offset of the local time zone from UTC, in minutes
    analyzer,   \* what analyze_usage does when it is called
    planCache,  \* what _data_cache holds under the key of the analysis
    answer,     \* the value the statistic returned
    apc,        \* "start", or the statistic that was computed
    \* ---- ConnectionManager, broadcast_loop, websocket_realtime ----
    active,       \* manager._active_connections
    task,         \* _broadcast_task: "none", or the state of the task
    cancelReq,    \* cancel() was called on the task and not yet delivered
    data,         \* broadcast_loop: the local `data` of the tick
    jsonMessage,  \* broadcast: the local json_message
    connections,  \* broadcast: the local `connections` (list order is
                  \* decided as the for loop takes its elements)
    rest,         \* broadcast: the connections the for loop has not taken
    connection,   \* broadcast: the loop variable, None outside the loop
    disconnected, \* broadcast: the local set `disconnected`
    version,      \* the state of the usage data a snapshot is taken of
    hpc,          \* per websocket: position of its websocket_realtime
    hsent,        \* history: per websocket, the messages its handler passed
                  \* to send_json since the connect or the latest inbound
                  \* message, each with the websockets it went to
    received,     \* history: per websocket, the latest message its handler
                  \* got from receive_text, "none" before the first
    recording,    \* whether hsent and received are kept (it is not where the claims are
                  \* about the loop alone)
    regAtTick,    \* history: the registry when the latest tick began
    computes,     \* history: snapshots computed by the latest tick
    serials,      \* history: json.dumps calls of the latest tick
    attempts,     \* history: per websocket, sends started by that tick
    failed,       \* history: websockets whose send of that tick raised
    payloads,     \* history: the texts passed to send_text in that tick
    live,         \* history: the broadcast_loop tasks created and not done
    raisedTick    \* history: 0 when the latest tick raised nothing in
                  \* broadcast_loop, else 1 or 2, in turn from one tick that
                  \* raised to the next one that did

cacheVars == <<clock, cache, lock, pc, call, key, val, ttl, entry, ret,
               result, lastSet, snap, srcCalls, raised, didDel, didSet,
               readAt, origin>>
sessVars == <<entries, now, later, info, infoLater, spc>>
\* what the statistics are computed of
statIn == <<usage, nowMin, zone, analyzer>>
statVars == <<statIn, planCache, answer, apc>>
loopVars == <<task, cancelReq, data, jsonMessage, connections, rest,
              connection, disconnected, regAtTick, computes, serials,
              attempts, failed, payloads, live, raisedTick>>
handlerVars == <<hpc, hsent, received, recording>>
bcastVars == <<active, loopVars, version, handlerVars>>

-----------------------------------------------------------------------------
(* Optional values: Python's None and a present value.                     *)
None == <<>>
Some(x) == <<x>>
The(o) == o[1]

-----------------------------------------------------------------------------
(* Bounds of the model and constants of the program.                       *)
CACHE_TTL == 10
MaxTicks == 1
SESSION_WINDOW_HOURS == 5
MaxLen == 2
MaxHour == 6

\* time passes in steps that take a fresh entry past its expiry
TickLen == CACHE_TTL + 1
MaxTime == MaxTicks * TickLen

Threads == {"t1", "t2"}
NoThread == "none"
\* hours_back of get_today_stats (24) and of the burn-rate load (1)
Hours == {24, 1}
\* A record set as the source returns it: 0 is the empty list, the others
\* stand for distinct non-empty lists.
EmptyRecords == 0
SomeRecords == 1
Values == {EmptyRecords, SomeRecords}
Ttls == {0, CACHE_TTL}

\* cache_key = f"entries_{hours_back}"
CacheKey(h) == <<"entries", h>>
Keys == {CacheKey(h) : h \in Hours}

-----------------------------------------------------------------------------
(* CacheEntry                                                              *)

\* CacheEntry.__init__: self.data = data; expires_at = time.time() + ttl
CacheEntry(d, l, time) == [data |-> d, expires_at |-> time + l]

IsExpiredAtDeadline(e, time) == time >= e.expires_at
\* CacheEntry.is_expired: time.time() > self.expires_at
IsExpired(e, time) == time > e.expires_at

\* What a key holds for a reader at `time`, by the history of sets and
\* clears alone: the data of the latest entry while time <= expires_at.
Visible(k, time) ==
    IF lastSet[k] # None /\ time <= The(lastSet[k]).expires_at
    THEN Some(The(lastSet[k]).data)
    ELSE None

-----------------------------------------------------------------------------
(* Threads: an idle thread runs get, set, clear or _load_entries. A thread  *)
(* that waits for the lock of the cache is a thread that has not entered    *)
(* the with block yet: entering is one step, taken when the lock is free.   *)

Idle(t) == pc[t] = "idle"

\* the locals of a thread that runs nothing
Reset(t) ==
    /\ pc' = [pc EXCEPT ![t] = "idle"]
    /\ call' = [call EXCEPT ![t] = "none"]
    /\ key' = [key EXCEPT ![t] = CacheKey(24)]
    /\ val' = [val EXCEPT ![t] = EmptyRecords]
    /\ ttl' = [ttl EXCEPT ![t] = 0]
    /\ entry' = [entry EXCEPT ![t] = None]
    /\ ret' = [ret EXCEPT ![t] = None]
    /\ result' = [result EXCEPT ![t] = None]
    /\ snap' = [snap EXCEPT ![t] = None]
    /\ srcCalls' = [srcCalls EXCEPT ![t] = 0]
    /\ raised' = [raised EXCEPT ![t] = FALSE]
    /\ didDel' = [didDel EXCEPT ![t] = FALSE]
    /\ didSet' = [didSet EXCEPT ![t] = FALSE]
    /\ readAt' = [readAt EXCEPT ![t] = None]

-----------------------------------------------------------------------------
(* DataCache.get                                                           *)

\* the with block of get entered by thread t for key k, the lock taken,
\* and entry = self._cache.get(key) read
GetEntered(t, k) ==
    /\ lock' = t
    /\ key' = [key EXCEPT ![t] = k]
    /\ entry' = [entry EXCEPT ![t] = cache[k]]
    /\ pc' = [pc EXCEPT ![t] = "get_read"]
    /\ UNCHANGED <<clock, cache, val, ttl, ret, result, lastSet, snap,
                   srcCalls, raised, didDel, didSet, readAt, origin>>

GetEnterUnlocked(t, k) ==
    /\ Idle(t)
    /\ GetEntered(t, k)
    /\ UNCHANGED call

\* DataCache.get(k) called from outside:
\* with self._lock: entry = self._cache.get(key)
GetEnter(t, k) ==
    /\ Idle(t)
    /\ lock = NoThread
    /\ GetEntered(t, k)
    /\ UNCHANGED call

EvictAll(c, k) == [x \in DOMAIN c |-> None]
\* del self._cache[key]
Evict(c, k) == [c EXCEPT ![k] = None]

\* if entry and not entry.is_expired(): return entry.data
\* elif entry: del self._cache[key]
\* return None
GetCheck(t) ==
    /\ pc[t] = "get_read"
    /\ snap' = [snap EXCEPT ![t] = Visible(key[t], clock)]
    /\ IF entry[t] # None /\ ~IsExpired(The(entry[t]), clock)
       THEN /\ ret' = [ret EXCEPT ![t] = Some(The(entry[t]).data)]
            /\ readAt' = [readAt EXCEPT ![t] = origin[key[t]]]
            /\ UNCHANGED <<cache, didDel>>
       ELSE IF entry[t] # None
       THEN /\ cache' = Evict(cache, key[t])
            /\ didDel' = [didDel EXCEPT ![t] = TRUE]
            /\ ret' = [ret EXCEPT ![t] = None]
            /\ UNCHANGED readAt
       ELSE /\ ret' = [ret EXCEPT ![t] = None]
            /\ UNCHANGED <<cache, didDel, readAt>>
    /\ entry' = [entry EXCEPT ![t] = None]   \* the local is dead from here
    /\ pc' = [pc EXCEPT ![t] = "get_exit"]
    /\ UNCHANGED <<clock, lock, call, key, val, ttl, result, lastSet,
                   srcCalls, raised, didSet, origin>>

\* leaving the with block of get: the lock is released and get returns,
\* to _load_entries (cached = ...) or to the outside caller
GetExit(t) ==
    /\ pc[t] = "get_exit"
    /\ lock' = NoThread
    /\ IF call[t] = "load"
       THEN /\ pc' = [pc EXCEPT ![t] = "load_got"]
            /\ UNCHANGED <<call, key, val, ttl, entry, ret, result, snap,
                           srcCalls, raised, didDel, didSet, readAt>>
       ELSE Reset(t)
    /\ UNCHANGED <<clock, cache, lastSet, origin>>

-----------------------------------------------------------------------------
(* DataCache.set                                                           *)

\* with self._lock: self._cache[key] = CacheEntry(data, ttl), by thread t;
\* the lock is released on leaving the block
SetDone(t, k, v, l) ==
    /\ lock = NoThread
    /\ cache' = [cache EXCEPT ![k] = Some(CacheEntry(v, l, clock))]
    /\ lastSet' = [lastSet EXCEPT
                      ![k] = Some([data |-> v, expires_at |-> clock + l])]
    /\ UNCHANGED <<clock, lock>>

\* DataCache.set(k, v, ttl) called from outside
Set(t, k, v, l) ==
    /\ Idle(t)
    /\ SetDone(t, k, v, l)
    /\ origin' = [origin EXCEPT ![k] = Some(clock)]
    /\ UNCHANGED <<pc, call, key, val, ttl, entry, ret, result, snap,
                   srcCalls, raised, didDel, didSet, readAt>>

-----------------------------------------------------------------------------
(* DataCache.clear                                                         *)

\* with self._lock: self._cache.clear()
Clear(t) ==
    /\ Idle(t)
    /\ lock = NoThread
    /\ cache' = [k \in Keys |-> None]
    /\ lastSet' = [k \in Keys |-> None]
    /\ origin' = [k \in Keys |-> None]
    /\ UNCHANGED <<clock, lock, pc, call, key, val, ttl, entry, ret, result,
                   snap, srcCalls, raised, didDel, didSet, readAt>>

-----------------------------------------------------------------------------
(* DataService._load_entries                                               *)

\* cache_key = f"entries_{hours_back}"; cached = _data_cache.get(cache_key)
\* (the with block of get entered)
LoadEnter(t, h) ==
    /\ Idle(t)
    /\ lock = NoThread
    /\ call' = [call EXCEPT ![t] = "load"]
    /\ GetEntered(t, CacheKey(h))

IsTruthy(cached) == cached # None /\ The(cached) # EmptyRecords
\* if cached is not None:
IsHit(cached) == cached # None

\* if cached is not None: return cached
LoadHit(t) ==
    /\ pc[t] = "load_got"
    /\ IsHit(ret[t])
    /\ result' = [result EXCEPT ![t] = ret[t]]
    /\ pc' = [pc EXCEPT ![t] = "load_ret"]
    /\ UNCHANGED <<clock, cache, lock, call, key, val, ttl, entry, ret,
                   lastSet, snap, srcCalls, raised, didDel, didSet,
                   readAt, origin>>

\* entries, _ = load_usage_entries(...) returns the records v
LoadSourceOk(t, v) ==
    /\ pc[t] = "load_got"
    /\ ~IsHit(ret[t])
    /\ srcCalls' = [srcCalls EXCEPT ![t] = @ + 1]
    /\ val' = [val EXCEPT ![t] = v]
    /\ ttl' = [ttl EXCEPT ![t] = CACHE_TTL]
    /\ pc' = [pc EXCEPT ![t] = "load_set"]
    /\ readAt' = [readAt EXCEPT ![t] = Some(clock)]
    /\ UNCHANGED <<clock, cache, lock, call, key, entry, ret, result,
                   lastSet, snap, raised, didDel, didSet, origin>>

\* _data_cache.set(cache_key, entries); return entries
LoadStore(t) ==
    /\ pc[t] = "load_set"
    /\ SetDone(t, key[t], val[t], ttl[t])
    /\ didSet' = [didSet EXCEPT ![t] = TRUE]
    /\ result' = [result EXCEPT ![t] = Some(val[t])]
    /\ pc' = [pc EXCEPT ![t] = "load_ret"]
    /\ origin' = [origin EXCEPT ![key[t]] = readAt[t]]
    /\ UNCHANGED <<call, key, val, ttl, entry, ret, snap, srcCalls, raised,
                   didDel, readAt>>

FailureCached(c, k, time) ==
    [c EXCEPT ![k] = Some(CacheEntry(EmptyRecords, CACHE_TTL, time))]
\* except Exception as e: logger.error(...)  -- the cache is not touched
AfterFailure(c, k, time) == c

\* load_usage_entries(...) raises: except Exception: return []
LoadSourceRaise(t) ==
    /\ pc[t] = "load_got"
    /\ ~IsHit(ret[t])
    /\ srcCalls' = [srcCalls EXCEPT ![t] = @ + 1]
    /\ raised' = [raised EXCEPT ![t] = TRUE]
    /\ cache' = AfterFailure(cache, key[t], clock)
    /\ result' = [result EXCEPT ![t] = Some(EmptyRecords)]
    /\ pc' = [pc EXCEPT ![t] = "load_ret"]
    /\ readAt' = [readAt EXCEPT ![t] = Some(clock)]
    /\ UNCHANGED <<clock, lock, call, key, val, ttl, entry, ret, lastSet,
                   snap, didDel, didSet, origin>>

\* the caller of _load_entries has the records; the thread is idle again
LoadReturn(t) ==
    /\ pc[t] = "load_ret"
    /\ Reset(t)
    /\ UNCHANGED <<clock, cache, lock, lastSet, origin>>

-----------------------------------------------------------------------------
(* The environment of the cache: time passes.                              *)

Tick ==
    /\ clock + TickLen <= MaxTime
    /\ clock' = clock + TickLen
    /\ UNCHANGED <<cache, lock, pc, call, key, val, ttl, entry, ret, result,
                   lastSet, snap, srcCalls, raised, didDel, didSet,
                   readAt, origin>>

-----------------------------------------------------------------------------
(* Usage records and sums over record lists.  Times of the session          *)
(* computation are in hours; a duration of h hours is 60 * h minutes.       *)

\* the four token counters of the records of the model
TokenShapes == {<<0, 0, 0, 0>>, <<1, 2, 4, 8>>}

\* UsageEntry: timestamp, the four counters, cost_usd (in cents)
UsageEntry(ts, shape) ==
    [timestamp |-> ts,
     input_tokens |-> shape[1],
     output_tokens |-> shape[2],
     cache_creation_tokens |-> shape[3],
     cache_read_tokens |-> shape[4],
     cost_usd |-> shape[1] + shape[3]]

Records == {UsageEntry(ts, sh) : ts \in 0..MaxHour, sh \in TokenShapes}

RECURSIVE SeqsUpTo(_, _)
SeqsUpTo(S, n) ==
    IF n = 0 THEN {<<>>}
    ELSE LET shorter == SeqsUpTo(S, n - 1)
         IN shorter \cup {Append(q, x) : q \in shorter, x \in S}

\* sum(e.<field> for e in es)
RECURSIVE SumField(_, _)
SumField(es, field) ==
    IF es = <<>> THEN 0 ELSE Head(es)[field] + SumField(Tail(es), field)

\* e.input_tokens + e.output_tokens + e.cache_creation_tokens
\*   + e.cache_read_tokens
EntryTokens(e) ==
    e.input_tokens + e.output_tokens + e.cache_creation_tokens
        + e.cache_read_tokens

\* sum(e.input_tokens + ... + e.cache_read_tokens for e in es)
RECURSIVE SumTokens(_)
SumTokens(es) ==
    IF es = <<>> THEN 0 ELSE EntryTokens(Head(es)) + SumTokens(Tail(es))

\* [e for e in entries if e.timestamp >= window_start]
WindowEntries(es, window_start) ==
    SelectSeq(es, LAMBDA e : e.timestamp >= window_start)

\* min(es, key=lambda e: e.timestamp): the first entry of the least
\* timestamp (es is not empty)
RECURSIVE MinByTimestamp(_)
MinByTimestamp(es) ==
    IF Len(es) = 1 THEN Head(es)
    ELSE LET m == MinByTimestamp(Tail(es))
         IN IF Head(es).timestamp <= m.timestamp THEN Head(es) ELSE m

Max(a, b) == IF a >= b THEN a ELSE b

-----------------------------------------------------------------------------
(* DataService._calculate_session_info                                     *)

\* the remaining_formatted string: "Session expired", f"{hours}h {minutes}m"
\* or f"{minutes}m"
RemainingFormatted(remaining_minutes) ==
    IF remaining_minutes <= 0 THEN <<"Session expired">>
    ELSE LET hours == remaining_minutes \div 60
             minutes == remaining_minutes % 60
         IN IF hours > 0 THEN <<hours, "h ", minutes, "m">>
                         ELSE <<minutes, "m">>

AnchorAtWindowStart(window_entries, window_start) == window_start
\* first_entry = min(window_entries, key=...);
\* session_start = first_entry.timestamp
SessionStart(window_entries, window_start) ==
    MinByTimestamp(window_entries).timestamp

\* _calculate_session_info(entries) evaluated when datetime.now() is n
SessionInfo(es, n) ==
    LET window_start == n - SESSION_WINDOW_HOURS
        window_entries == WindowEntries(es, window_start)
    IN IF window_entries = <<>>
       THEN [session_start |-> None,
             session_end |-> None,
             remaining_minutes |-> 0,
             remaining_formatted |-> <<"No active session">>,
             is_active |-> FALSE,
             tokens_in_window |-> 0,
             cost_in_window |-> 0]
       ELSE LET session_start == SessionStart(window_entries, window_start)
                session_end == session_start + SESSION_WINDOW_HOURS
                remaining == session_end - n
                remaining_minutes == Max(0, remaining * 60)
            IN [session_start |-> Some(session_start),
                session_end |-> Some(session_end),
                remaining_minutes |-> remaining_minutes,
                remaining_formatted |-> RemainingFormatted(remaining_minutes),
                is_active |-> remaining_minutes > 0,
                tokens_in_window |-> SumTokens(window_entries),
                cost_in_window |-> SumField(window_entries, "cost_usd")]

\* the session is computed for the records at time `now`
ComputeSession ==
    /\ spc = "start"
    /\ info' = Some(SessionInfo(entries, now))
    /\ spc' = "computed"
    /\ UNCHANGED <<entries, now, later, infoLater>>

\* time advances to t, no record is added or removed, and the session is
\* computed again
RecomputeLater(t) ==
    /\ spc = "computed"
    /\ t >= now
    /\ later' = t
    /\ infoLater' = Some(SessionInfo(entries, t))
    /\ spc' = "recomputed"
    /\ UNCHANGED <<entries, now, info>>

SessInit ==
    /\ entries \in SeqsUpTo(Records, MaxLen)
    /\ now \in 0..MaxHour
    /\ later = 0
    /\ info = None
    /\ infoLater = None
    /\ spc = "start"

-----------------------------------------------------------------------------
(* The statistics over a record list.  Their times are in minutes: a        *)
(* timestamp is a number of minutes, its date the day it falls in.          *)

MaxRecs == 2

\* minutes_window: int = 30
DefaultMinutesWindow == 30

\* the values of the parameter days of get_history
HistoryDays == {7, 30}

\* e.model of the records: a model name, or the empty string
Models == {"opus", ""}

\* the timestamps of the records and the readings of the clock: three
\* dates, and around the clock the edge of the burn rate window
StatStamps == {1000, 2859, 2860, 2883, 2890, 2891}
Nows == {2890, 2891}

\* UsageEntry with its model
StatRecord(ts, shape, m) == UsageEntry(ts, shape) @@ [model |-> m]

StatRecords ==
    {StatRecord(ts, sh, m) : ts \in StatStamps, sh \in TokenShapes, m \in Models}

\* the dates get_daily_stats is asked for: those of the timestamps
StatDays == {0, 1, 2}

\* entry.timestamp.date(), as the number of the day
DateOf(ts) == ts \div (24 * 60)

\* entry.timestamp.hour
HourOf(ts) == (ts % (24 * 60)) \div 60

\* day.isoformat(): the text "YYYY-MM-DD" of the day, here of January 1970
IsoFormat(day) == <<"1970-01-", day + 1>>

TotalWithoutCache(input_tokens, output_tokens, cache_creation, cache_read) ==
    input_tokens + output_tokens
\* total = input_tokens + output_tokens + cache_creation + cache_read
Total(input_tokens, output_tokens, cache_creation, cache_read) ==
    input_tokens + output_tokens + cache_creation + cache_read

\* _calculate_token_breakdown(entries)
TokenBreakdown(es) ==
    LET input_tokens == SumField(es, "input_tokens")
        output_tokens == SumField(es, "output_tokens")
        cache_creation == SumField(es, "cache_creation_tokens")
        cache_read == SumField(es, "cache_read_tokens")
    IN [input_tokens |-> input_tokens,
        output_tokens |-> output_tokens,
        cache_creation_tokens |-> cache_creation,
        cache_read_tokens |-> cache_read,
        total_tokens |->
            Total(input_tokens, output_tokens, cache_creation, cache_read)]

\* _calculate_token_breakdown is applied to the records
CalculateTokenBreakdown ==
    /\ apc = "start"
    /\ answer' = TokenBreakdown(usage)
    /\ apc' = "breakdown"
    /\ UNCHANGED <<statIn, planCache>>

\* sorted(keys): the elements of the set S of numbers, ascending
RECURSIVE Sorted(_)
Sorted(S) ==
    IF S = {} THEN <<>>
    ELSE LET least == CHOOSE x \in S : \A y \in S : x <= y
         IN <<least>> \o Sorted(S \ {least})

\* by_date[entry.timestamp.date()].append(entry): the keys of by_date and
\* the list under the key day, in the order of the entries
DatesOf(es) == {DateOf(es[i].timestamp) : i \in 1..Len(es)}

EntriesOfDate(es, day) == SelectSeq(es, LAMBDA e : DateOf(e.timestamp) = day)

\* hourly[entry.timestamp.hour] += 1, as dict(hourly)
HourlyDistribution(es) ==
    [h \in {HourOf(es[i].timestamp) : i \in 1..Len(es)} |->
        Cardinality({i \in 1..Len(es) : HourOf(es[i].timestamp) = h})]

\* list(set(e.model for e in es if e.model)), as the set it lists
ModelsUsed(es) == {es[i].model : i \in {j \in 1..Len(es) : es[j].model # ""}}

\* the DailyStatsResponse get_history builds of the entries of one day
DailyStats(day, day_entries) ==
    [date |-> IsoFormat(day),
     total_requests |-> Len(day_entries),
     tokens |-> TokenBreakdown(day_entries),
     total_cost_usd |-> SumField(day_entries, "cost_usd"),
     models_used |-> ModelsUsed(day_entries),
     hourly_distribution |-> HourlyDistribution(day_entries)]

\* sum(ds.tokens.total_tokens for ds in daily_stats)
RECURSIVE SumDailyTokens(_)
SumDailyTokens(daily_stats) ==
    IF daily_stats = <<>> THEN 0
    ELSE Head(daily_stats).tokens.total_tokens
             + SumDailyTokens(Tail(daily_stats))

RECURSIVE UnsortedDays(_)
UnsortedDays(days) ==
    IF days = {} THEN <<>>
    ELSE LET most == CHOOSE x \in days : \A y \in days : x >= y
         IN <<most>> \o UnsortedDays(days \ {most})
\* for day in sorted(by_date.keys()): the order of the daily entries
DayOrder(days) == Sorted(days)

\* get_history(days) on the entries _load_entries returned
History(es, days) ==
    LET order == DayOrder(DatesOf(es))
        daily_stats ==
            [i \in 1..Len(order) |->
                DailyStats(order[i], EntriesOfDate(es, order[i]))]
    IN [days_requested |-> days,
        days_with_data |-> Len(daily_stats),
        daily_stats |-> daily_stats,
        total_tokens |-> SumDailyTokens(daily_stats),
        total_cost_usd |-> SumField(daily_stats, "total_cost_usd"),
        date_range |->
            [start |-> IF daily_stats # <<>>
                       THEN Some(daily_stats[1].date) ELSE None,
             end |-> IF daily_stats # <<>>
                     THEN Some(daily_stats[Len(daily_stats)].date) ELSE None]]

\* get_history is called and _load_entries gives it the records
GetHistory(days) ==
    /\ apc = "start"
    /\ answer' = History(usage, days)
    /\ apc' = "history"
    /\ UNCHANGED <<statIn, planCache>>

\* get_daily_stats(target_date) on the entries _load_entries returned:
\* date_entries = [e for e in entries if e.timestamp.date() == target_date]
GetDailyStats(target_date) ==
    /\ apc = "start"
    /\ answer' = DailyStats(target_date, EntriesOfDate(usage, target_date))
    /\ apc' = "daily"
    /\ UNCHANGED <<statIn, planCache>>

\* the offsets of the local zone: west of UTC, UTC, east of UTC
Zones == {0 - 60, 0, 60}

\* a UsageEntry of the model "opus" whose timestamp carries a zone (UTC)
\* or none
ZonedRecords ==
    {StatRecord(ts, sh, "opus") @@ [tzinfo |-> aware] :
        ts \in StatStamps, sh \in TokenShapes, aware \in BOOLEAN}

\* date.today(): the date of the local time
Today(n, z) == DateOf(n + z)

\* e.timestamp.astimezone().date(): the date of the timestamp in local time
LocalDateOf(ts, z) == DateOf(ts + z)

\* e.timestamp.date() == today or (e.timestamp.astimezone().date() == today
\* if e.timestamp.tzinfo else e.timestamp.date() == today)
IsToday(e, today, z) ==
    \/ DateOf(e.timestamp) = today
    \/ IF e.tzinfo THEN LocalDateOf(e.timestamp, z) = today
                   ELSE DateOf(e.timestamp) = today

\* get_today_stats() on the entries _load_entries returned; the response
\* is built of today_entries as get_daily_stats builds its own
TodayStats(es, n, z) ==
    DailyStats(Today(n, z), SelectSeq(es, LAMBDA e : IsToday(e, Today(n, z), z)))

GetTodayStats ==
    /\ apc = "start"
    /\ answer' = TodayStats(usage, nowMin, zone)
    /\ apc' = "today"
    /\ UNCHANGED <<statIn, planCache>>

\* round(n / d, k) for n >= 0 and d > 0, in units of 10^-k: the nearest
\* whole number to n / d, the even one of two that are equally near
RoundHalfEven(n, d) ==
    LET q == n \div d
        r == n % d
    IN IF 2 * r < d THEN q
       ELSE IF 2 * r > d THEN q + 1
       ELSE IF q % 2 = 0 THEN q ELSE q + 1

SpanFromWindowStart(recent_entries, window_start) == window_start
\* first_entry = min(recent_entries, key=lambda e: e.timestamp), whose
\* timestamp the time span is counted from
SpanStart(recent_entries, window_start) ==
    MinByTimestamp(recent_entries).timestamp

\* _calculate_burn_rate(entries, minutes_window) when datetime.now() is n:
\* tokens_per_minute in hundredths of a token, cost_per_hour in
\* ten-thousandths of the unit of cost_usd
BurnRate(es, minutes_window, n) ==
    LET window_start == n - minutes_window
        recent_entries == WindowEntries(es, window_start)
    IN IF recent_entries = <<>>
       THEN [tokens_per_minute |-> 0, cost_per_hour |-> 0]
       ELSE LET total_tokens == SumTokens(recent_entries)
                total_cost == SumField(recent_entries, "cost_usd")
                time_span ==
                    Max(n - SpanStart(recent_entries, window_start), 1)
            IN [tokens_per_minute |->
                    RoundHalfEven(100 * total_tokens, time_span),
                cost_per_hour |->
                    RoundHalfEven(10000 * total_cost * 60, time_span)]

\* _calculate_burn_rate is applied to the records, with its default window
CalculateBurnRate ==
    /\ apc = "start"
    /\ answer' = BurnRate(usage, DefaultMinutesWindow, nowMin)
    /\ apc' = "burn_rate"
    /\ UNCHANGED <<statIn, planCache>>

ModelKeyAsGiven(m) == m
\* model_key = entry.model or "unknown"
ModelKey(m) == IF m # "" THEN m ELSE "unknown"

\* the keys of by_model, in the order the loop over the entries adds them
RECURSIVE ModelKeys(_)
ModelKeys(es) ==
    IF es = <<>> THEN <<>>
    ELSE LET before == ModelKeys(SubSeq(es, 1, Len(es) - 1))
             k == ModelKey(es[Len(es)].model)
         IN IF \E i \in 1..Len(before) : before[i] = k
            THEN before ELSE Append(before, k)

\* by_model[model]
EntriesOfModel(es, model) == SelectSeq(es, LAMBDA e : ModelKey(e.model) = model)

\* sorted(es, key=lambda e: e.timestamp)[-1]: an entry of the greatest
\* timestamp (es is not empty)
RECURSIVE MaxByTimestamp(_)
MaxByTimestamp(es) ==
    IF Len(es) = 1 THEN Head(es)
    ELSE LET m == MaxByTimestamp(Tail(es))
         IN IF Head(es).timestamp > m.timestamp THEN Head(es) ELSE m

\* the ModelStatsResponse of one model; percentage_of_total in hundredths
\* of a percent
ModelStats(model, model_entries, total_all_tokens) ==
    LET tokens == TokenBreakdown(model_entries)
    IN [model |-> model,
        total_requests |-> Len(model_entries),
        tokens |-> tokens,
        total_cost_usd |-> SumField(model_entries, "cost_usd"),
        percentage_of_total |->
            IF total_all_tokens > 0
            THEN RoundHalfEven(100 * tokens.total_tokens * 100,
                               total_all_tokens)
            ELSE 0,
        first_used |-> MinByTimestamp(model_entries).timestamp,
        last_used |-> MaxByTimestamp(model_entries).timestamp]

\* model_stats.sort(key=lambda m: m.tokens.total_tokens, reverse=True): the
\* stable sort, the greater total first, equal totals in their given order
RECURSIVE SortByTokensDescending(_)
SortByTokensDescending(model_stats) ==
    IF model_stats = <<>> THEN <<>>
    ELSE LET most ==
                 CHOOSE i \in 1..Len(model_stats) :
                     /\ \A j \in 1..Len(model_stats) :
                            model_stats[j].tokens.total_tokens
                                <= model_stats[i].tokens.total_tokens
                     /\ \A j \in 1..(i - 1) :
                            model_stats[j].tokens.total_tokens
                                < model_stats[i].tokens.total_tokens
             others ==
                 [j \in 1..(Len(model_stats) - 1) |->
                     IF j < most THEN model_stats[j] ELSE model_stats[j + 1]]
         IN <<model_stats[most]>> \o SortByTokensDescending(others)

\* get_model_stats(days) on the entries _load_entries returned
ModelStatsList(es) ==
    IF es = <<>>
    THEN [models |-> <<>>, total_models |-> 0,
          period_start |-> None, period_end |-> None]
    ELSE LET keys == ModelKeys(es)
             total_all_tokens == SumTokens(es)
             model_stats ==
                 SortByTokensDescending(
                     [i \in 1..Len(keys) |->
                         ModelStats(keys[i], EntriesOfModel(es, keys[i]),
                                    total_all_tokens)])
         IN [models |-> model_stats,
             total_models |-> Len(model_stats),
             period_start |-> Some(MinByTimestamp(es).timestamp),
             period_end |-> Some(MaxByTimestamp(es).timestamp)]

\* get_model_stats is called and _load_entries gives it the records
GetModelStats ==
    /\ apc = "start"
    /\ answer' = ModelStatsList(usage)
    /\ apc' = "models"
    /\ UNCHANGED <<statIn, planCache>>

-----------------------------------------------------------------------------
(* DataService.get_plan_usage                                              *)

\* the plans: Plans.get_plan_by_name(plan) and its limits, scaled down
\* (tokens, cost in cents, messages); a name that is no plan gives None
PlanNames == {"pro", "max20", "nosuchplan"}
PlanConfig(plan) ==
    CASE plan = "pro" ->
             Some([name |-> "pro", token_limit |-> 20, cost_limit |-> 10,
                   message_limit |-> 5])
      [] plan = "max20" ->
             Some([name |-> "max20", token_limit |-> 40, cost_limit |-> 20,
                   message_limit |-> 10])
      [] OTHER -> None

\* the values of startTime and endTime of a block: the key is missing; a
\* well-formed ISO text with a zone ("...Z") or without one; a text that is
\* no timestamp; a non-empty bytes object; a number other than 0
TimeKinds == {"missing", "aware", "naive", "text", "bytes", "number"}
TimeField(kind, at) == [kind |-> kind, at |-> at]
StartTimes ==
    {TimeField(kind, IF kind \in {"aware", "naive"} THEN 2700 ELSE 0) :
        kind \in TimeKinds}
EndTimes ==
    {TimeField(kind, IF kind \in {"aware", "naive"} THEN 3000 ELSE 0) :
        kind \in TimeKinds}

\* if start_time_str: the value is true unless the key is missing
IsSet(v) == v.kind # "missing"

\* datetime.fromisoformat(v.replace("Z", "+00:00")): the exception it
\* raises, or "none": a text that is no timestamp gives ValueError, bytes
\* give TypeError (replace needs bytes arguments), a number has no replace
FromIsoFormatRaises(v) ==
    CASE v.kind = "text" -> "ValueError"
      [] v.kind = "bytes" -> "TypeError"
      [] v.kind = "number" -> "AttributeError"
      [] OTHER -> "none"

\* the datetime it returns otherwise: aware of its zone, or naive
FromIsoFormat(v) == [at |-> v.at, aware |-> v.kind = "aware"]

\* a datetime of UTC
Utc(at) == [at |-> at, aware |-> TRUE]

\* the modelDistribution a block carries
BlockDistribution == [m \in {"opus"} |-> 1000]

\* the blocks of analyze_usage: isActive, costUSD (cents), totalTokens,
\* messageCount, startTime, endTime and, or not, modelDistribution
Block(isActive, tokens, startTime, endTime, dist) ==
    [isActive |-> isActive,
     costUSD |-> tokens \div 5,
     totalTokens |-> tokens,
     messageCount |-> tokens \div 10,
     startTime |-> startTime,
     endTime |-> endTime,
     modelDistribution |-> dist]

InactiveBlock ==
    Block(FALSE, 35, TimeField("aware", 2000), TimeField("aware", 2300), None)
SecondActiveBlock ==
    Block(TRUE, 5, TimeField("aware", 2760), TimeField("aware", 3060),
          Some(BlockDistribution))
ActiveBlocks ==
    {Block(TRUE, tokens, st, en, dist) :
        tokens \in {0, 15, 40}, st \in StartTimes, en \in EndTimes,
        dist \in {None, Some(BlockDistribution)}}

\* what analyze_usage returns: None, a dictionary without "blocks", or a
\* dictionary with the list of blocks
AnalysisNone == [present |-> FALSE, blocks |-> None]
AnalysisNoBlocks == [present |-> TRUE, blocks |-> None]
Analysis(blocks) == [present |-> TRUE, blocks |-> Some(blocks)]

Analyses ==
    {AnalysisNone, AnalysisNoBlocks, Analysis(<<>>), Analysis(<<InactiveBlock>>),
     Analysis(<<InactiveBlock, InactiveBlock>>)}
        \cup {Analysis(<<b>>) : b \in ActiveBlocks}
        \cup {Analysis(<<InactiveBlock, b>>) : b \in ActiveBlocks}
        \cup {Analysis(<<b, SecondActiveBlock>>) : b \in ActiveBlocks}

\* analyze_usage(...) raises, or returns an analysis
Analyzers ==
    {[outcome |-> "raise", data |-> AnalysisNone]}
        \cup {[outcome |-> "return", data |-> d] : d \in Analyses}

\* for block in analysis_data["blocks"]: if block.get("isActive", False):
\* active_block = block; break
RECURSIVE FirstActive(_)
FirstActive(blocks) ==
    IF blocks = <<>> THEN None
    ELSE IF Head(blocks).isActive THEN Some(Head(blocks))
    ELSE FirstActive(Tail(blocks))

\* the active block of the analysis, if any:
\* if analysis_data and "blocks" in analysis_data: ...
ActiveBlock(analysis_data) ==
    IF analysis_data.present /\ analysis_data.blocks # None
    THEN FirstActive(The(analysis_data.blocks))
    ELSE None

\* the session times of the active block: the try block that parses
\* startTime and endTime, with its except (ValueError, TypeError); any
\* other exception leaves get_plan_usage
SessionTimes(active_block, n) ==
    LET start_time_str == active_block.startTime
        end_time_str == active_block.endTime
        fallback == [raised |-> "none", session_start |-> Utc(n),
                     reset_time |-> Utc(n + SESSION_WINDOW_HOURS * 60)]
        startRaises == IF IsSet(start_time_str)
                       THEN FromIsoFormatRaises(start_time_str) ELSE "none"
        endRaises == IF IsSet(end_time_str)
                     THEN FromIsoFormatRaises(end_time_str) ELSE "none"
        session_start == IF IsSet(start_time_str)
                         THEN FromIsoFormat(start_time_str) ELSE Utc(n)
        reset_time ==
            IF IsSet(end_time_str) THEN FromIsoFormat(end_time_str)
            ELSE [at |-> session_start.at + SESSION_WINDOW_HOURS * 60,
                  aware |-> session_start.aware]
    IN IF startRaises \in {"ValueError", "TypeError"} THEN fallback
       ELSE IF startRaises # "none"
       THEN [raised |-> startRaises, session_start |-> Utc(n),
             reset_time |-> Utc(n)]
       ELSE IF endRaises \in {"ValueError", "TypeError"} THEN fallback
       ELSE IF endRaises # "none"
       THEN [raised |-> endRaises, session_start |-> Utc(n),
             reset_time |-> Utc(n)]
       ELSE [raised |-> "none", session_start |-> session_start,
             reset_time |-> reset_time]

\* now.replace(minute=0, second=0, microsecond=0) + timedelta(hours=1)
TopOfNextHour(n) == (n \div 60) * 60 + 60

\* UsageVsLimit: current, limit and round(current / limit * 100, 1) in
\* tenths of a percent (the formatted texts are left out)
UsageVsLimit(current, limit) ==
    [current |-> current,
     limit |-> limit,
     percentage |-> IF limit > 0 THEN RoundHalfEven(1000 * current, limit)
                                 ELSE 0]

\* f"{hours}h {minutes}m" if hours > 0 else f"{minutes}m"
PlanRemainingFormatted(remaining_minutes) ==
    LET hours == remaining_minutes \div 60
        minutes == remaining_minutes % 60
    IN IF hours > 0 THEN <<hours, "h ", minutes, "m">> ELSE <<minutes, "m">>

\* t.strftime("%I:%M %p"): the hour of the 12-hour clock, the minute and
\* AM or PM
StrfTime(t) ==
    <<((HourOf(t) + 11) % 12) + 1, ":", t % 60, " ",
      IF HourOf(t) < 12 THEN "AM" ELSE "PM">>

\* _load_entries(hours_back): the records load_usage_entries gives for
\* the last hours_back hours
LoadedEntries(es, hours_back, n) == WindowEntries(es, n - hours_back * 60)

\* entry.input_tokens + entry.output_tokens: what a record adds to
\* model_tokens[model]
CountedTokens(e) == e.input_tokens + e.output_tokens

\* sum(model_tokens.values()) of the entries in I
RECURSIVE SumCounted(_)
SumCounted(es) ==
    IF es = <<>> THEN 0 ELSE CountedTokens(Head(es)) + SumCounted(Tail(es))

\* the distribution computed of the entries of the session window:
\* round(tokens / total_model_tokens * 100, 1) in tenths of a percent, or
\* 0.0 for every model when the total is 0 (a dictionary: the order of its
\* items, by tokens descending, is left out)
ComputedDistribution(es) ==
    LET total_model_tokens == SumCounted(es)
    IN [model \in {ModelKey(es[i].model) : i \in 1..Len(es)} |->
           IF total_model_tokens > 0
           THEN RoundHalfEven(1000 * SumCounted(EntriesOfModel(es, model)),
                              total_model_tokens)
           ELSE 0]

\* the empty dictionary
NoDistribution == [model \in {} |-> 0]

PredictsAlways(tokens_per_minute, total_tokens, token_limit) ==
    tokens_per_minute > 0
\* if burn_rate.tokens_per_minute > 0 and total_tokens < token_limit
Predicts(tokens_per_minute, total_tokens, token_limit) ==
    tokens_per_minute > 0 /\ total_tokens < token_limit

\* get_plan_usage(plan) at the time n, when the analysis (cached or just
\* computed) is analysis_data and the source holds the records es: the
\* response, or the exception that leaves the function
PlanUsage(plan, analysis_data, es, n) ==
    LET plan_config == IF PlanConfig(plan) = None
                       THEN The(PlanConfig("max20"))
                       ELSE The(PlanConfig(plan))
        active_block == ActiveBlock(analysis_data)
        times == IF active_block # None
                 THEN SessionTimes(The(active_block), n)
                 ELSE [raised |-> "none", session_start |-> Utc(n),
                       reset_time |-> Utc(TopOfNextHour(n))]
        total_cost == IF active_block # None
                      THEN The(active_block).costUSD ELSE 0
        total_tokens == IF active_block # None
                        THEN The(active_block).totalTokens ELSE 0
        total_messages == IF active_block # None
                          THEN The(active_block).messageCount ELSE 0
        reset_time == times.reset_time
        remaining_minutes == Max(0, reset_time.at - n)
        burn_rate == BurnRate(LoadedEntries(es, 1, n), DefaultMinutesWindow, n)
        model_distribution ==
            IF active_block # None /\ The(active_block).modelDistribution # None
            THEN The(The(active_block).modelDistribution)
            ELSE IF active_block # None
            THEN ComputedDistribution(
                     LoadedEntries(es, SESSION_WINDOW_HOURS, n))
            ELSE NoDistribution
        tokens_run_out ==
            IF Predicts(burn_rate.tokens_per_minute, total_tokens,
                        plan_config.token_limit)
            THEN Some(StrfTime(n + (100 * (plan_config.token_limit
                                               - total_tokens))
                                       \div burn_rate.tokens_per_minute))
            ELSE None
    IN IF times.raised # "none" THEN [raised |-> times.raised]
       \* remaining = max(timedelta(0), reset_time - now): a naive datetime
       \* cannot be subtracted from an aware one
       ELSE IF ~reset_time.aware THEN [raised |-> "TypeError"]
       ELSE [raised |-> "none",
             timestamp |-> n,
             plan |-> plan_config,
             cost_usage |-> UsageVsLimit(total_cost, plan_config.cost_limit),
             token_usage |->
                 UsageVsLimit(total_tokens, plan_config.token_limit),
             message_usage |->
                 UsageVsLimit(total_messages, plan_config.message_limit),
             reset_info |->
                 [reset_time |-> reset_time.at,
                  remaining_minutes |-> remaining_minutes,
                  remaining_formatted |->
                      PlanRemainingFormatted(remaining_minutes)],
             burn_rate |-> burn_rate,
             model_distribution |-> model_distribution,
             predictions |->
                 [tokens_run_out |-> tokens_run_out,
                  limit_resets_at |-> Some(StrfTime(reset_time.at))]]

\* analysis_data = _data_cache.get(cache_key): the data of the entry, None
\* without an entry
CachedAnalysis == IF planCache # None THEN The(planCache) ELSE AnalysisNone

CacheTheFailure(c, a) == Some(a.data)
\* except Exception as e: logger.error(...); analysis_data = None
AfterAnalyzerFailure(c, a) == c

\* get_plan_usage(plan): the analysis is taken from the cache, or
\* analyze_usage is called and its result stored; when it raises, the
\* analysis is None and nothing is stored
GetPlanUsage(plan) ==
    /\ apc = "start"
    /\ LET miss == ~CachedAnalysis.present
           analysis_data ==
               IF ~miss THEN CachedAnalysis
               ELSE IF analyzer.outcome = "raise" THEN AnalysisNone
               ELSE analyzer.data
       IN  /\ planCache' =
                  IF ~miss THEN planCache
                  ELSE IF analyzer.outcome = "raise"
                  THEN AfterAnalyzerFailure(planCache, analyzer)
                  ELSE Some(analyzer.data)
           /\ answer' = PlanUsage(plan, analysis_data, usage, nowMin)
    /\ apc' = "plan"
    /\ UNCHANGED statIn

\* the records in the source when get_plan_usage runs: none; one of the
\* last minutes; one of the session window and one of the last minutes,
\* of two models; one of the session window without a token
PlanUsages ==
    {<<>>,
     <<StatRecord(2883, <<1, 2, 4, 8>>, "opus")>>,
     <<StatRecord(2700, <<1, 2, 4, 8>>, "opus"),
       StatRecord(2879, <<2, 1, 0, 0>>, "")>>,
     <<StatRecord(2700, <<0, 0, 0, 0>>, "opus"),
       StatRecord(2000, <<1, 2, 4, 8>>, "")>>}

\* the clock: the top of an hour, and ten minutes past it
PlanNows == {2880, 2890}

\* the entry of the cache under the key of the analysis: none, or one
\* stored by an earlier call, to which analyze_usage gave None or a block
PlanCaches == {None, Some(AnalysisNone), Some(Analysis(<<SecondActiveBlock>>))}

PlanInit ==
    /\ usage \in PlanUsages
    /\ nowMin \in PlanNows
    /\ zone = 0
    /\ analyzer \in Analyzers
    /\ planCache \in PlanCaches
    /\ answer = None
    /\ apc = "start"

\* get_plan_usage is not running
PlanRest ==
    /\ zone = 0
    /\ analyzer = [outcome |-> "none"]
    /\ planCache = None

StatInit ==
    /\ usage \in SeqsUpTo(StatRecords, MaxRecs)
    /\ nowMin \in Nows
    /\ PlanRest
    /\ answer = None
    /\ apc = "start"

\* no statistic is computed
StatRest ==
    /\ usage = <<>>
    /\ nowMin = 0
    /\ PlanRest
    /\ answer = None
    /\ apc = "rest"

-----------------------------------------------------------------------------
(* The broadcast manager.  The coroutines of the event loop (the broadcast  *)
(* task and one websocket_realtime per connection) run one at a time and    *)
(* give way only at an await that suspends: accept, send_text, send_json,   *)
(* receive_text and asyncio.sleep.  manager._lock is never held across      *)
(* such an await, so `async with self._lock` never waits and each action    *)
(* below runs from one suspension to the next.                              *)

Sockets == {"w1", "w2", "w3"}
\* the configured seconds between two ticks
WEBSOCKET_BROADCAST_INTERVAL == 10
\* the texts a client sends: the two the handler knows and one it does not
Messages == {"ping", "refresh", "other"}
\* the states of the usage data a snapshot can be taken of
Versions == {"v0", "v1"}

NoData == [type |-> "none", body |-> "none"]
NoJson == <<>>

\* get_realtime_data(): the dictionary of the snapshot of the usage data,
\* or the "error" payload when computing it raises
GetRealtimeData(ver, fault) ==
    IF fault THEN [type |-> "error", body |-> "none"]
             ELSE [type |-> "realtime_update", body |-> ver]

\* json.dumps(message, default=str): the text of the dictionary
Serialize(message) == <<"{type:", message.type, ",body:", message.body, "}">>

\* the locals and the history of a task that has not run a tick
LoopFresh ==
    /\ data = NoData
    /\ jsonMessage = NoJson
    /\ connections = {}
    /\ rest = {}
    /\ connection = None
    /\ disconnected = {}
    /\ regAtTick = {}
    /\ computes = 0
    /\ serials = 0
    /\ attempts = [w \in Sockets |-> 0]
    /\ failed = {}
    /\ payloads = {}
    /\ raisedTick = 0

\* asyncio.create_task(broadcast_loop()): the same, of the new task
LoopCreated ==
    /\ data' = NoData
    /\ jsonMessage' = NoJson
    /\ connections' = {}
    /\ rest' = {}
    /\ connection' = None
    /\ disconnected' = {}
    /\ regAtTick' = {}
    /\ computes' = 0
    /\ serials' = 0
    /\ attempts' = [w \in Sockets |-> 0]
    /\ failed' = {}
    /\ payloads' = {}
    /\ raisedTick' = 0

\* the locals of broadcast are gone when it has returned
BroadcastReturned ==
    /\ data' = NoData
    /\ jsonMessage' = NoJson
    /\ connections' = {}
    /\ rest' = {}
    /\ connection' = None
    /\ disconnected' = {}

LoopDies(tk) == "done"
\* except Exception as e: logger.error(...); await asyncio.sleep(interval)
AfterError(tk) == "sleeping"

\* one iteration of broadcast_loop up to its first suspension: either
\* connection_count is 0 and the task sleeps, or the snapshot is computed
\* (an "error" payload when that raises), broadcast serializes it, copies
\* the registry and starts the first send, to the connection `first`; when
\* something in between raises an Exception (json.dumps), the except branch
\* of the loop takes it and sleeps
LoopTick(fault, raises, first) ==
    /\ task \in {"pending", "sleeping"}
    /\ ~cancelReq
    /\ regAtTick' = active
    /\ failed' = {}
    /\ IF Cardinality(active) > 0
       THEN IF raises
            THEN /\ first = "none"
                 /\ BroadcastReturned
                 /\ computes' = 1
                 /\ serials' = 1
                 /\ attempts' = [w \in Sockets |-> 0]
                 /\ payloads' = {}
                 /\ raisedTick' = IF raisedTick = 1 THEN 2 ELSE 1
                 /\ task' = AfterError(task)
            ELSE /\ data' = GetRealtimeData(version, fault)
                 /\ computes' = 1
                 /\ jsonMessage' = Serialize(data')
                 /\ serials' = 1
                 /\ first \in active
                 /\ connections' = active
                 /\ disconnected' = {}
                 /\ connection' = Some(first)
                 /\ rest' = active \ {first}
                 /\ attempts' = [w \in Sockets |-> IF w = first THEN 1 ELSE 0]
                 /\ payloads' = {jsonMessage'}
                 /\ raisedTick' = 0
                 /\ task' = "sending"
       ELSE /\ first = "none"
            /\ ~fault
            /\ ~raises
            /\ BroadcastReturned
            /\ computes' = 0
            /\ serials' = 0
            /\ attempts' = [w \in Sockets |-> 0]
            /\ payloads' = {}
            /\ raisedTick' = 0
            /\ task' = "sleeping"
    /\ UNCHANGED <<active, cancelReq, version, handlerVars, live>>

PayloadRecomputed(text, ver) == Serialize(GetRealtimeData(ver, FALSE))
\* the text passed to send_text: the json_message serialized before the loop
Payload(text, ver) == text

KeepAll(reg, dis) == reg
\* self._active_connections -= disconnected
Prune(reg, dis) == reg \ dis

ToVisitLive(r, reg) == r \cup (reg \ connections)
\* for connection in connections: the loop runs over the copy of the
\* registry, so what is left to visit are the elements r of the copy it has
\* not taken, whatever the registry reg holds by now
ToVisit(r, reg) == r

\* the for loop after the send to `connection` ended, with the set dis of
\* failed connections: the send to `next` starts, or, when no connection is
\* left, the failed ones are removed (if disconnected: ...), broadcast
\* returns and the task sleeps
AfterSend(dis, next) ==
    /\ IF ToVisit(rest, active) # {}
       THEN /\ next \in ToVisit(rest, active)
            /\ connection' = Some(next)
            /\ rest' = ToVisit(rest, active) \ {next}
            /\ disconnected' = dis
            /\ attempts' = [attempts EXCEPT ![next] = @ + 1]
            /\ payloads' = payloads \cup {Payload(jsonMessage, version)}
            /\ task' = "sending"
            /\ UNCHANGED <<active, data, jsonMessage, connections>>
       ELSE /\ next = "none"
            /\ active' = IF dis # {} THEN Prune(active, dis) ELSE active
            /\ BroadcastReturned
            /\ task' = "sleeping"
            /\ UNCHANGED <<attempts, payloads>>
    /\ UNCHANGED <<cancelReq, regAtTick, computes, serials, version,
                   handlerVars, live, raisedTick>>

\* await connection.send_text(json_message) returns
SendOk(next) ==
    /\ task = "sending"
    /\ ~cancelReq
    /\ hpc[The(connection)] # "closed"
    /\ AfterSend(disconnected, next)
    /\ UNCHANGED failed

SendFailAborts(next) ==
    /\ task = "sending"
    /\ ~cancelReq
    /\ next = "none"
    /\ failed' = failed \cup {The(connection)}
    /\ BroadcastReturned
    /\ task' = "sleeping"
    /\ UNCHANGED <<active, cancelReq, regAtTick, computes, serials, attempts,
                   payloads, version, handlerVars, live, raisedTick>>

\* await connection.send_text(json_message) raises:
\* except Exception: disconnected.add(connection)
SendFail(next) ==
    /\ task = "sending"
    /\ ~cancelReq
    /\ failed' = failed \cup {The(connection)}
    /\ AfterSend(disconnected \cup {The(connection)}, next)

AlwaysCreates(tk) == TRUE
\* if _broadcast_task is None or _broadcast_task.done()
NoLoopRunning(tk) == tk \in {"none", "done"}

\* start_broadcast_task(): a new task unless one exists that is not done;
\* _broadcast_task refers to the new task from then on
StartBroadcastTask ==
    IF NoLoopRunning(task)
    THEN /\ task' = "pending"
         /\ cancelReq' = FALSE
         /\ LoopCreated
         /\ live' = live + 1
    ELSE UNCHANGED loopVars

\* start_broadcast_task() called by lifespan at startup
LifespanStart ==
    /\ task \in {"none", "done"}
    /\ StartBroadcastTask
    /\ UNCHANGED <<active, version, handlerVars>>

CancelsAnything(tk) == TRUE
\* if _broadcast_task and not _broadcast_task.done()
LoopRunning(tk) == tk \notin {"none", "done"}

\* stop_broadcast_task(): cancel() on a task that is not done, nothing
\* otherwise; cancel() only requests the cancellation and returns
StopBroadcastTask ==
    /\ cancelReq' = IF LoopRunning(task) THEN TRUE ELSE cancelReq
    /\ UNCHANGED <<active, task, data, jsonMessage, connections, rest,
                   connection, disconnected, regAtTick, computes, serials,
                   attempts, failed, payloads, version, handlerVars,
                   live, raisedTick>>

CancelSwallowed(tk) == tk
\* except asyncio.CancelledError: break, and the coroutine returns
AfterCancel(tk) == "done"

\* the CancelledError reaches the task at its await: it is not an Exception,
\* leaves broadcast without the clean-up, and ends the loop
\* (except asyncio.CancelledError: break); a task cancelled before its
\* first step never runs
CancelDelivered ==
    /\ cancelReq
    /\ task \in {"pending", "sending", "sleeping"}
    /\ task' = AfterCancel(task)
    /\ cancelReq' = FALSE
    /\ BroadcastReturned
    /\ live' = live - 1
    /\ UNCHANGED <<active, regAtTick, computes, serials, attempts, failed,
                   payloads, version, handlerVars, raisedTick>>

-----------------------------------------------------------------------------
(* websocket_realtime: the handler of one connection                       *)

\* the welcome dictionary, with get_settings().WEBSOCKET_BROADCAST_INTERVAL
Welcome ==
    [type |-> "welcome", body |-> ToString(WEBSOCKET_BROADCAST_INTERVAL)]

\* {"type": "pong", "timestamp": ...}
Pong == [type |-> "pong", body |-> "none"]

RecipientsAll(w, reg) == reg \cup {w}
\* await websocket.send_json(...): the handler sends on its own websocket
Recipients(w, reg) == {w}

\* the record of one send_json of the handler of w
Sent(w, m) == [to |-> Recipients(w, active), type |-> m.type, body |-> m.body]

\* hsent after the handler of w has passed the messages ms to send_json,
\* on top of the record `before`
Record(w, before, ms) ==
    IF recording
    THEN [hsent EXCEPT ![w] = before \o [i \in 1..Len(ms) |-> Sent(w, ms[i])]]
    ELSE hsent

\* a client connects and websocket_realtime runs to its first send:
\* await websocket.accept(); self._active_connections.add(websocket);
\* start_broadcast_task(); await websocket.send_json(welcome)
Connect(w) ==
    /\ hpc[w] = "new"
    /\ active' = active \cup {w}
    /\ StartBroadcastTask
    /\ hpc' = [hpc EXCEPT ![w] = "welcome"]
    /\ hsent' = Record(w, <<>>, <<Welcome>>)
    /\ UNCHANGED <<version, received, recording>>

\* a send_json of the handler returns: after the welcome the initial
\* snapshot is computed and sent (initial_data = await get_realtime_data());
\* after that, and after a pong or a refresh, the handler waits in
\* receive_text
HandlerSent(w, fault) ==
    /\ hpc[w] \in {"welcome", "initial", "pong", "refresh"}
    /\ IF hpc[w] = "welcome"
       THEN /\ hpc' = [hpc EXCEPT ![w] = "initial"]
            /\ hsent' = Record(w, hsent[w], <<GetRealtimeData(version, fault)>>)
       ELSE /\ ~fault
            /\ hpc' = [hpc EXCEPT ![w] = "receiving"]
            /\ UNCHANGED hsent
    /\ UNCHANGED <<active, loopVars, version, received, recording>>

ReplyAlwaysPong(message, snapshot) == <<Pong>>
\* if message == "ping": send_json(pong); elif message == "refresh":
\* data = await get_realtime_data(); send_json(data); nothing otherwise
Reply(message, snapshot) ==
    CASE message = "ping" -> <<Pong>>
      [] message = "refresh" -> <<snapshot>>
      [] OTHER -> <<>>

\* receive_text returns a message: "ping" is answered by a pong, "refresh"
\* by a fresh snapshot, anything else by nothing
Receive(w, message, fault) ==
    /\ hpc[w] = "receiving"
    /\ fault => message = "refresh"
    /\ LET reply == Reply(message, GetRealtimeData(version, fault))
       IN  /\ hpc' = [hpc EXCEPT ![w] =
                         IF reply = <<>> THEN "receiving"
                         ELSE IF reply[1].type = "pong" THEN "pong"
                         ELSE "refresh"]
           /\ hsent' = Record(w, <<>>, reply)
    /\ received' = IF recording THEN [received EXCEPT ![w] = message]
                                ELSE received
    /\ UNCHANGED <<active, loopVars, version, recording>>

KeepRegistered(reg, w) == reg
\* manager.disconnect: self._active_connections.discard(websocket)
Discard(reg, w) == reg \ {w}

\* an await of the handler raises (WebSocketDisconnect or another
\* exception): finally: await manager.disconnect(websocket)
HandlerEnds(w) ==
    /\ hpc[w] \in {"welcome", "initial", "receiving", "pong", "refresh"}
    /\ active' = Discard(active, w)
    /\ hpc' = [hpc EXCEPT ![w] = "closed"]
    /\ hsent' = Record(w, <<>>, <<>>)
    /\ received' = [received EXCEPT ![w] = "none"]
    /\ UNCHANGED <<loopVars, version, recording>>

\* the usage data changes
VersionChange ==
    /\ \E v \in Versions \ {version} : version' = v
    /\ UNCHANGED <<active, loopVars, handlerVars>>

\* the manager, the task and the connections before any client has come
BcastRest ==
    /\ active = {}
    /\ task = "none"
    /\ cancelReq = FALSE
    /\ LoopFresh
    /\ live = 0
    /\ version = "v0"
    /\ hpc = [w \in Sockets |-> "new"]
    /\ hsent = [w \in Sockets |-> <<>>]
    /\ received = [w \in Sockets |-> "none"]

BcastInit == BcastRest /\ recording = FALSE

-----------------------------------------------------------------------------
(* The session computation at rest (specification Spec).                   *)
SessRest ==
    /\ entries = <<>>
    /\ now = 0
    /\ later = 0
    /\ info = None
    /\ infoLater = None
    /\ spc = "rest"

CacheInit ==
    /\ clock = 0
    /\ cache = [k \in Keys |-> None]
    /\ lock = NoThread
    /\ pc = [t \in Threads |-> "idle"]
    /\ call = [t \in Threads |-> "none"]
    /\ key = [t \in Threads |-> CacheKey(24)]
    /\ val = [t \in Threads |-> EmptyRecords]
    /\ ttl = [t \in Threads |-> 0]
    /\ entry = [t \in Threads |-> None]
    /\ ret = [t \in Threads |-> None]
    /\ result = [t \in Threads |-> None]
    /\ lastSet = [k \in Keys |-> None]
    /\ snap = [t \in Threads |-> None]
    /\ srcCalls = [t \in Threads |-> 0]
    /\ raised = [t \in Threads |-> FALSE]
    /\ didDel = [t \in Threads |-> FALSE]
    /\ didSet = [t \in Threads |-> FALSE]
    /\ readAt = [t \in Threads |-> None]
    /\ origin = [k \in Keys |-> None]

Init == CacheInit /\ SessRest /\ StatRest /\ BcastInit

Next ==
    \/ UNCHANGED <<sessVars, statVars, bcastVars>> /\ \E t \in Threads, k \in Keys : GetEnter(t, k)
    \/ UNCHANGED <<sessVars, statVars, bcastVars>> /\ \E t \in Threads : GetCheck(t)
    \/ UNCHANGED <<sessVars, statVars, bcastVars>> /\ \E t \in Threads : GetExit(t)
    \/ UNCHANGED <<sessVars, statVars, bcastVars>> /\ \E t \in Threads, k \in Keys, v \in Values,
                                l \in Ttls : Set(t, k, v, l)
    \/ UNCHANGED <<sessVars, statVars, bcastVars>> /\ \E t \in Threads : Clear(t)
    \/ UNCHANGED <<sessVars, statVars, bcastVars>> /\ \E t \in Threads, h \in Hours : LoadEnter(t, h)
    \/ UNCHANGED <<sessVars, statVars, bcastVars>> /\ \E t \in Threads : LoadHit(t)
    \/ UNCHANGED <<sessVars, statVars, bcastVars>> /\ \E t \in Threads, v \in Values :
                                LoadSourceOk(t, v)
    \/ UNCHANGED <<sessVars, statVars, bcastVars>> /\ \E t \in Threads : LoadStore(t)
    \/ UNCHANGED <<sessVars, statVars, bcastVars>> /\ \E t \in Threads : LoadSourceRaise(t)
    \/ UNCHANGED <<sessVars, statVars, bcastVars>> /\ \E t \in Threads : LoadReturn(t)
    \/ UNCHANGED <<sessVars, statVars, bcastVars>> /\ Tick

vars == <<cacheVars, sessVars, statVars, bcastVars>>

Spec == Init /\ [][Next]_vars

\* the callers of _load_entries alone: nothing else uses the cache
NextLoad ==
    \/ UNCHANGED <<sessVars, statVars, bcastVars>> /\ \E t \in Threads, h \in Hours : LoadEnter(t, h)
    \/ UNCHANGED <<sessVars, statVars, bcastVars>> /\ \E t \in Threads : GetCheck(t)
    \/ UNCHANGED <<sessVars, statVars, bcastVars>> /\ \E t \in Threads : GetExit(t)
    \/ UNCHANGED <<sessVars, statVars, bcastVars>> /\ \E t \in Threads : LoadHit(t)
    \/ UNCHANGED <<sessVars, statVars, bcastVars>> /\ \E t \in Threads, v \in Values :
                                LoadSourceOk(t, v)
    \/ UNCHANGED <<sessVars, statVars, bcastVars>> /\ \E t \in Threads : LoadStore(t)
    \/ UNCHANGED <<sessVars, statVars, bcastVars>> /\ \E t \in Threads : LoadSourceRaise(t)
    \/ UNCHANGED <<sessVars, statVars, bcastVars>> /\ \E t \in Threads : LoadReturn(t)
    \/ UNCHANGED <<sessVars, statVars, bcastVars>> /\ Tick

SpecLoad == Init /\ [][NextLoad]_vars

\* the session computation on every record list and time of the bounds
InitSession == CacheInit /\ SessInit /\ StatRest /\ BcastInit

NextSession ==
    \/ UNCHANGED <<cacheVars, statVars, bcastVars>> /\ ComputeSession
    \/ UNCHANGED <<cacheVars, statVars, bcastVars>> /\ \E t \in 0..MaxHour : RecomputeLater(t)

SpecSession == InitSession /\ [][NextSession]_vars

\* the statistics on every record list and time of the bounds
InitStats == CacheInit /\ SessRest /\ StatInit /\ BcastInit

NextStats ==
    \/ UNCHANGED <<cacheVars, sessVars, bcastVars>> /\ CalculateTokenBreakdown
    \/ UNCHANGED <<cacheVars, sessVars, bcastVars>> /\ CalculateBurnRate
    \/ UNCHANGED <<cacheVars, sessVars, bcastVars>> /\
          \E target_date \in StatDays : GetDailyStats(target_date)
    \/ UNCHANGED <<cacheVars, sessVars, bcastVars>> /\ GetModelStats
    \/ UNCHANGED <<cacheVars, sessVars, bcastVars>> /\
          \E days \in HistoryDays : GetHistory(days)

SpecStats == InitStats /\ [][NextStats]_vars

\* the statistics of today and of a given day, in every local zone
InitToday ==
    /\ CacheInit /\ SessRest /\ BcastInit
    /\ usage \in SeqsUpTo(ZonedRecords, MaxRecs)
    /\ nowMin \in Nows
    /\ zone \in Zones
    /\ analyzer = [outcome |-> "none"]
    /\ planCache = None
    /\ answer = None
    /\ apc = "start"

NextToday ==
    \/ UNCHANGED <<cacheVars, sessVars, bcastVars>> /\ GetTodayStats
    \/ UNCHANGED <<cacheVars, sessVars, bcastVars>> /\
          \E target_date \in StatDays : GetDailyStats(target_date)

SpecToday == InitToday /\ [][NextToday]_vars

\* get_plan_usage on every analysis, record list and time of the bounds
InitPlan == CacheInit /\ SessRest /\ PlanInit /\ BcastInit

NextPlan ==
    \/ UNCHANGED <<cacheVars, sessVars, bcastVars>> /\
          \E plan \in PlanNames : GetPlanUsage(plan)

SpecPlan == InitPlan /\ [][NextPlan]_vars

\* the broadcast manager with its connections
InitBroadcast == CacheInit /\ SessRest /\ StatRest /\ BcastInit

NextBroadcast ==
    \/ UNCHANGED <<cacheVars, sessVars, statVars>> /\ LifespanStart
    \/ UNCHANGED <<cacheVars, sessVars, statVars>> /\ StopBroadcastTask
    \/ UNCHANGED <<cacheVars, sessVars, statVars>> /\ CancelDelivered
    \/ UNCHANGED <<cacheVars, sessVars, statVars>> /\
          \E fault \in BOOLEAN, raises \in BOOLEAN,
             first \in Sockets \cup {"none"} :
              LoopTick(fault, raises, first)
    \/ UNCHANGED <<cacheVars, sessVars, statVars>> /\
          \E next \in Sockets \cup {"none"} : SendOk(next)
    \/ UNCHANGED <<cacheVars, sessVars, statVars>> /\
          \E next \in Sockets \cup {"none"} : SendFail(next)
    \/ UNCHANGED <<cacheVars, sessVars, statVars>> /\ \E w \in Sockets : Connect(w)
    \/ UNCHANGED <<cacheVars, sessVars, statVars>> /\
          \E w \in Sockets, fault \in BOOLEAN : HandlerSent(w, fault)
    \/ UNCHANGED <<cacheVars, sessVars, statVars>> /\
          \E w \in Sockets, m \in Messages, fault \in BOOLEAN :
              Receive(w, m, fault)
    \/ UNCHANGED <<cacheVars, sessVars, statVars>> /\ \E w \in Sockets : HandlerEnds(w)
    \/ UNCHANGED <<cacheVars, sessVars, statVars>> /\ VersionChange

SpecBroadcast == InitBroadcast /\ [][NextBroadcast]_vars

\* the connection handlers with the record of what they send, next to a
\* loop that ticks and is not stopped
Clients == {"w1", "w2"}

InitHandler ==
    CacheInit /\ SessRest /\ StatRest /\ BcastRest /\ recording = TRUE

NextHandler ==
    \/ UNCHANGED <<cacheVars, sessVars, statVars>> /\
          \E fault \in BOOLEAN, raises \in BOOLEAN,
             first \in Sockets \cup {"none"} :
              LoopTick(fault, raises, first)
    \/ UNCHANGED <<cacheVars, sessVars, statVars>> /\
          \E next \in Sockets \cup {"none"} : SendOk(next)
    \/ UNCHANGED <<cacheVars, sessVars, statVars>> /\
          \E next \in Sockets \cup {"none"} : SendFail(next)
    \/ UNCHANGED <<cacheVars, sessVars, statVars>> /\ \E w \in Clients : Connect(w)
    \/ UNCHANGED <<cacheVars, sessVars, statVars>> /\
          \E w \in Clients, fault \in BOOLEAN : HandlerSent(w, fault)
    \/ UNCHANGED <<cacheVars, sessVars, statVars>> /\
          \E w \in Clients, m \in Messages, fault \in BOOLEAN :
              Receive(w, m, fault)
    \/ UNCHANGED <<cacheVars, sessVars, statVars>> /\ \E w \in Clients : HandlerEnds(w)
    \/ UNCHANGED <<cacheVars, sessVars, statVars>> /\ VersionChange

SpecHandler == InitHandler /\ [][NextHandler]_vars

\* the broadcast loop under the scheduling of the event loop, with clients
\* that connect and disconnect but send no message, over usage data that
\* stays as it is: a task that is cancelled gets to run, and so does a task
\* whose sleep is over
NextLoop ==
    \/ UNCHANGED <<cacheVars, sessVars, statVars>> /\ LifespanStart
    \/ UNCHANGED <<cacheVars, sessVars, statVars>> /\ StopBroadcastTask
    \/ UNCHANGED <<cacheVars, sessVars, statVars>> /\ CancelDelivered
    \/ UNCHANGED <<cacheVars, sessVars, statVars>> /\
          \E fault \in BOOLEAN, raises \in BOOLEAN,
             first \in Sockets \cup {"none"} :
              LoopTick(fault, raises, first)
    \/ UNCHANGED <<cacheVars, sessVars, statVars>> /\
          \E next \in Sockets \cup {"none"} : SendOk(next)
    \/ UNCHANGED <<cacheVars, sessVars, statVars>> /\
          \E next \in Sockets \cup {"none"} : SendFail(next)
    \/ UNCHANGED <<cacheVars, sessVars, statVars>> /\ \E w \in Sockets : Connect(w)
    \/ UNCHANGED <<cacheVars, sessVars, statVars>> /\
          \E w \in Sockets, fault \in BOOLEAN : HandlerSent(w, fault)
    \/ UNCHANGED <<cacheVars, sessVars, statVars>> /\ \E w \in Sockets : HandlerEnds(w)

SpecLoopFair ==
    /\ InitBroadcast
    /\ [][NextLoop]_vars
    /\ WF_vars(UNCHANGED <<cacheVars, sessVars, statVars>> /\ CancelDelivered)
    /\ WF_vars(UNCHANGED <<cacheVars, sessVars, statVars>> /\
                  \E fault \in BOOLEAN, raises \in BOOLEAN,
                     first \in Sockets \cup {"none"} :
                      LoopTick(fault, raises, first))

-----------------------------------------------------------------------------
(* Claims about DataCache and _load_entries (specification Spec).          *)

\* C1: after set(k, v, ttl), a get(k) that tests the entry no later than
\* expires_at (the time of the set + ttl), with no later set(k) or clear()
\* in between, returns exactly v; a get(k) after expires_at returns None
\* until k is set again. snap is that value, taken from the history of
\* sets and clears when the get tests the entry.
C1_GetReturnsLatestSet ==
    \A t \in Threads : pc[t] = "get_exit" => ret[t] = snap[t]

\* a get from outside returns the value of a set at the very instant
\* expires_at of the entry, after another entry of the key had expired
C1_Witness ==
    \E t \in Threads :
        /\ pc[t] = "get_exit"
        /\ call[t] = "none"
        /\ ret[t] = Some(SomeRecords)
        /\ The(lastSet[key[t]]).expires_at = clock
        /\ clock > 0

\* C7: _load_entries(h): when an unexpired entry for entries_<h> exists as
\* the call reads the cache, the call returns the cached records and does
\* not call the record source (so a second sequential call within the TTL
\* returns what the first stored, with one source call in all); on a miss
\* the source is called once, and when it returns, its result is stored
\* under that key with the default TTL and returned.
C7_LoadResult ==
    \A t \in Threads :
        pc[t] = "load_ret" =>
            /\ snap[t] # None =>
                   srcCalls[t] = 0 /\ result[t] = snap[t] /\ ~didSet[t]
            /\ snap[t] = None =>
                   srcCalls[t] = 1 /\ (raised[t] <=> ~didSet[t])

C7_LoadStores ==
    \A t \in Threads :
        (pc[t] = "load_set" /\ pc'[t] = "load_ret") =>
            /\ result'[t] = Some(val[t])
            /\ cache'[key[t]] = Some([data |-> val[t],
                                      expires_at |-> clock + CACHE_TTL])

C7_LoadEntriesCached == []C7_LoadResult /\ [][C7_LoadStores]_vars

\* a call returned the cached empty record list, stored by an earlier call
\* of _load_entries, and did not call the source
C7_Witness ==
    \E t \in Threads :
        /\ pc[t] = "load_ret"
        /\ srcCalls[t] = 0
        /\ result[t] = Some(EmptyRecords)
        /\ lastSet[key[t]] = Some([data |-> EmptyRecords,
                                   expires_at |-> CACHE_TTL])

\* C8: get, set and clear are atomic under every interleaving: a thread
\* inside the with block of get holds the lock, the entry it has read is
\* still the stored one when it tests it, a value it returns is the data of
\* the latest completed set of the key, and an entry that the
\* delete-on-expiry of a get removes is expired at that moment (never a
\* fresh entry of a concurrent set).
C8_InBlock ==
    \A t \in Threads :
        /\ pc[t] \in {"get_read", "get_exit"} => lock = t
        /\ pc[t] = "get_read" => entry[t] = cache[key[t]]
        /\ (pc[t] = "get_exit" /\ ret[t] # None) =>
               /\ lastSet[key[t]] # None
               /\ The(ret[t]) = The(lastSet[key[t]]).data

C8_EvictsOnlyExpired ==
    \A k \in Keys :
        (cache[k] # None /\ cache'[k] = None /\ lastSet'[k] = lastSet[k]) =>
            The(cache[k]).expires_at < clock

C8_Atomic == []C8_InBlock /\ [][C8_EvictsOnlyExpired]_vars

\* a get has removed an expired entry while another thread is inside
\* _load_entries for the same key, on its way to set it
C8_Witness ==
    \E t, u \in Threads :
        /\ t # u
        /\ pc[t] = "get_exit"
        /\ didDel[t]
        /\ pc[u] = "load_set"
        /\ key[u] = key[t]

\* C9: a stored entry changes or goes only by a set of its key (it is
\* overwritten), by clear(), or by the get of its key that finds it
\* expired, which removes it and returns None; nothing else removes
\* entries (time passing does not). A get(k) removes the entry of k when
\* it finds it expired, leaves it when it is fresh, never touches another
\* key, and leaves the store unchanged when k is missing.
C9_IsGetCheck(t) == pc[t] = "get_read" /\ pc'[t] = "get_exit"

C9_OnlyLazyEviction ==
    \A k \in Keys :
        cache'[k] # cache[k] =>
            \/ cache'[k] # None
            \/ \A x \in Keys : cache'[x] = None /\ lastSet'[x] = None
            \/ \E t \in Threads :
                  /\ C9_IsGetCheck(t)
                  /\ key[t] = k
                  /\ cache[k] # None
                  /\ clock > The(cache[k]).expires_at
                  /\ ret'[t] = None

C9_GetFrame ==
    \A t \in Threads :
        C9_IsGetCheck(t) =>
            /\ \A k \in Keys \ {key[t]} : cache'[k] = cache[k]
            /\ cache[key[t]] = None => cache' = cache
            /\ (cache[key[t]] # None
                  /\ clock > The(cache[key[t]]).expires_at) =>
                   cache'[key[t]] = None
            /\ (cache[key[t]] # None
                  /\ clock <= The(cache[key[t]]).expires_at) =>
                   cache' = cache

C9_LazyEviction == [][C9_OnlyLazyEviction /\ C9_GetFrame]_vars

\* a get has removed the expired entry of its key while the expired entry
\* of the other key, which nobody reads, is still stored
C9_Witness ==
    \E t \in Threads, k \in Keys :
        /\ pc[t] = "get_exit"
        /\ didDel[t]
        /\ k # key[t]
        /\ cache[k] # None
        /\ clock > The(cache[k]).expires_at

\* C10 as stated: when the record source raises, _load_entries returns the
\* empty record set and the call has left the cache unchanged.
C10_CacheUntouched ==
    \A t \in Threads :
        (pc[t] = "load_ret" /\ raised[t]) =>
            /\ result[t] = Some(EmptyRecords)
            /\ ~didDel[t]
            /\ ~didSet[t]

\* C10 as amended: when the record source raises, _load_entries returns the
\* empty record set to its caller (no error state), has stored nothing,
\* and the handling of the failure leaves the cache as it is (the failure
\* is not cached); the only change the call can have made is the removal,
\* by its initial get, of an expired entry under its own key.
C10_LoadResult ==
    \A t \in Threads :
        (pc[t] = "load_ret" /\ raised[t]) =>
            /\ result[t] = Some(EmptyRecords)
            /\ ~didSet[t]
            /\ snap[t] = None

C10_RaiseStep ==
    \A t \in Threads :
        (pc[t] = "load_got" /\ pc'[t] = "load_ret" /\ raised'[t]) =>
            cache' = cache

C10_FailureNotCached ==
    []C10_LoadResult /\ [][C10_RaiseStep]_vars

\* the source raised in a call whose get had removed an expired entry
C10_Witness ==
    \E t \in Threads :
        /\ pc[t] = "load_ret"
        /\ raised[t]
        /\ didDel[t]
        /\ result[t] = Some(EmptyRecords)

-----------------------------------------------------------------------------
(* Claims about _calculate_session_info (specification SpecSession).       *)

\* the records of the window, by their positions in the list
C5_InWindow ==
    {i \in 1..Len(entries) :
        entries[i].timestamp >= now - SESSION_WINDOW_HOURS}

RECURSIVE C5_Sum(_, _)
C5_Sum(I, f) ==
    IF I = {} THEN 0
    ELSE LET i == CHOOSE x \in I : TRUE IN f[i] + C5_Sum(I \ {i}, f)

C6_RemainingNonIncreasing ==
    spc = "recomputed" =>
        The(infoLater).remaining_minutes <= The(info).remaining_minutes

-----------------------------------------------------------------------------
(* Claims about broadcast_loop and ConnectionManager.broadcast              *)
(* (specification SpecBroadcast).                                           *)

\* the websockets the latest tick started a send to
C3_Attempted == {w \in Sockets : attempts[w] > 0}

\* C2, the state part: a tick that found the registry non-empty computed one
\* snapshot and serialized it once, and every text it passed to send_text is
\* that one serialization (it passed none when the serialization raised); a
\* tick that found it empty computed nothing, serialized nothing and sent
\* nothing.
C2_OnePayload ==
    /\ regAtTick # {} =>
           /\ computes = 1
           /\ serials = 1
           /\ Cardinality(payloads) = IF raisedTick = 0 THEN 1 ELSE 0
           /\ task = "sending" =>
                  /\ payloads = {jsonMessage}
                  /\ jsonMessage = Serialize(data)
    /\ regAtTick = {} =>
           /\ computes = 0
           /\ serials = 0
           /\ payloads = {}
           /\ C3_Attempted = {}
           /\ task # "sending"

\* C2, the step part: the first tick of a task, when it finds the registry
\* empty, ends in the sleep of the loop with nothing computed.
C2_EmptyTick ==
    (task = "pending" /\ task' # "pending" /\ ~cancelReq /\ active = {}) =>
        /\ task' = "sleeping"
        /\ computes' = 0
        /\ payloads' = {}

\* C2: a tick over a non-empty registry computes and serializes the snapshot
\* exactly once and every send of the tick carries that same text; a tick
\* over an empty registry computes nothing, sends nothing and goes on to the
\* sleep of the loop.
C2_TickComputesOnce == []C2_OnePayload /\ [][C2_EmptyTick]_vars

\* a pass over two websockets or more is over, the usage data changed while
\* it ran, and both sends carried the one text serialized before the change
C2_Witness ==
    /\ task = "sleeping"
    /\ Cardinality(C3_Attempted) >= 2
    /\ payloads = {Serialize(GetRealtimeData("v0", FALSE))}
    /\ version = "v1"

\* C3, the state part: no websocket is sent to twice in a pass, only
\* websockets of the delivery set are sent to, and when the pass is over
\* every websocket of the delivery set has been sent to (a tick that raised
\* before its first send had no pass).
C3_EachOnce ==
    /\ \A w \in Sockets : attempts[w] <= 1
    /\ C3_Attempted \subseteq regAtTick
    /\ failed \subseteq C3_Attempted
    /\ task = "sleeping" /\ raisedTick = 0 => C3_Attempted = regAtTick

\* C3, the step part: a send that raises does not end the loop, and the
\* pass goes on to the next websocket while one is left; only a
\* cancellation ends the task.
C3_FailureContained ==
    /\ failed' # failed /\ failed' # {} /\ rest # {} =>
           /\ task' = "sending"
           /\ connection' # connection
    /\ task # "done" /\ task' = "done" => cancelReq

\* C3: within a delivery pass every websocket of the delivery set is sent to
\* exactly once whatever the outcome of the other sends, and a send that
\* raises does not raise out of broadcast.
C3_FailedSendContained == []C3_EachOnce /\ [][C3_FailureContained]_vars

\* a pass over three websockets is over in which the send to two of them
\* raised and the third was sent to all the same
C3_Witness ==
    /\ task = "sleeping"
    /\ Cardinality(regAtTick) = 3
    /\ Cardinality(failed) = 2
    /\ C3_Attempted = regAtTick

\* the handler of w ends in this step, which discards w
C4_Disconnects(w) == hpc[w] # "closed" /\ hpc'[w] = "closed"

\* C4, the removal: the registry loses a websocket either when its handler
\* ends or in the step that ends a pass, after the last send of the pass;
\* that step removes the websockets whose send raised in the pass and no
\* other.
C4_PurgeAfterPass ==
    /\ \A w \in active \ active' :
           \/ C4_Disconnects(w)
           \/ /\ task = "sending"
              /\ task' = "sleeping"
              /\ C3_Attempted = regAtTick
              /\ w \in failed'
    /\ task = "sending" /\ task' = "sleeping" =>
           active' = active \ failed'

\* C4, the next tick: the delivery set of the tick that follows a pass holds
\* no websocket whose send raised in that pass.
C4_NextDeliverySet ==
    task = "sleeping" /\ task' = "sending" => regAtTick' \cap failed = {}

\* C4: websockets whose send raised are removed when the pass is over, not
\* before, and only they are removed; the next tick does not deliver to them.
C4_FailedPurgedAfterPass ==
    [][C4_PurgeAfterPass]_vars /\ [][C4_NextDeliverySet]_vars

\* a pass is over: the websocket whose send raised is out of the registry,
\* the one whose send returned and the one that registered during or after
\* the pass are in it, and the handler of the removed one still runs
C4_Witness ==
    /\ task = "sleeping"
    /\ Cardinality(failed) = 1
    /\ failed \cap active = {}
    /\ \E w \in regAtTick \ failed : w \in active
    /\ \E w \in active : w \notin regAtTick
    /\ \A w \in failed : hpc[w] = "receiving"

\* C11, the state part: during a pass the delivery set is the copy of the
\* registry taken when the tick began; the pass sends to websockets of the
\* copy only, so a websocket that registered since has been sent nothing.
C11_PassUsesCopy ==
    /\ task = "sending" =>
           /\ connections = regAtTick
           /\ The(connection) \in regAtTick
           /\ rest \subseteq regAtTick
    /\ \A w \in Sockets \ regAtTick : attempts[w] = 0

\* C11, the step part: the copy is taken once, when the tick begins, and
\* holds every websocket registered at that moment, those that registered
\* during the pass before included; it does not change during the pass.
C11_CopyPerTick ==
    /\ task # "sending" /\ task' = "sending" =>
           /\ regAtTick' = active
           /\ connections' = active
    /\ task = "sending" /\ task' = "sending" =>
           /\ regAtTick' = regAtTick
           /\ connections' = connections

\* C11, not blocked: while a pass is in progress a new websocket can
\* register and a running handler can deregister.
C11_NotBlocked ==
    task = "sending" =>
        \A w \in Sockets :
            /\ hpc[w] = "new" => ENABLED Connect(w)
            /\ hpc[w] \in {"welcome", "initial", "receiving"} =>
                   ENABLED HandlerEnds(w)

\* C11: a websocket that registers during a delivery pass is sent nothing by
\* that pass and is in the copy the next tick takes; registering and
\* deregistering go on during the pass.
C11_RegisteredDuringPass ==
    [](C11_PassUsesCopy /\ C11_NotBlocked) /\ [][C11_CopyPerTick]_vars

\* the last send of a pass over two websockets is in flight and a third
\* websocket, registered since the pass began, has been sent nothing
C11_Witness ==
    /\ task = "sending"
    /\ rest = {}
    /\ Cardinality(regAtTick) = 2
    /\ \E w \in active \ regAtTick : attempts[w] = 0

\* C12, the state part: at most one broadcast_loop task that is not done
\* exists, and it is the one _broadcast_task refers to.
C12_OneLoop ==
    /\ live <= 1
    /\ live = IF task \in {"pending", "sending", "sleeping"} THEN 1 ELSE 0

\* C12, the step part: the start_broadcast_task of a new connection, made
\* while the task is not done, creates nothing and leaves the task, its
\* cancellation request and its locals as they are.
C12_StartIsNoOp ==
    \A w \in Sockets :
        (/\ hpc[w] = "new"
         /\ hpc'[w] = "welcome"
         /\ task \in {"pending", "sending", "sleeping"}) =>
            UNCHANGED loopVars

\* C12: start_broadcast_task while the task is running is a no-op, so at
\* most one broadcast loop that has not finished exists at any time.
C12_AtMostOneLoop == []C12_OneLoop /\ [][C12_StartIsNoOp]_vars

\* two websockets have connected, each connection called
\* start_broadcast_task, the second while the loop of the first was in a
\* delivery pass, and one loop exists
C12_Witness ==
    /\ task = "sending"
    /\ Cardinality(regAtTick) = 1
    /\ Cardinality(active) = 2
    /\ live = 1

\* C13, the state part: a cancellation is pending only on a task that is
\* not done, so a stop with no loop running leaves nothing behind; the task
\* that ended holds no locals of a pass.
C13_NoStrayCancel ==
    /\ cancelReq => task \in {"pending", "sending", "sleeping"}
    /\ task = "done" => connection = None /\ rest = {}

\* C13, the step part: from the stop on, the loop computes nothing, sends
\* nothing and starts no tick, and it removes nothing from the registry; the
\* step in which the cancellation takes effect ends the task and leaves the
\* registry as it is.
C13_NoFurtherTick ==
    /\ cancelReq =>
           /\ task' \in {task, "done"}
           /\ UNCHANGED <<regAtTick, computes, serials, attempts, failed,
                          payloads, connection>> \/ task' = "done"
           /\ \A w \in active \ active' : C4_Disconnects(w)
    /\ cancelReq /\ ~cancelReq' => task' = "done"
    /\ task # "done" /\ task' = "done" =>
           /\ cancelReq
           /\ active' = active
           /\ UNCHANGED <<regAtTick, computes, serials, attempts, failed,
                          payloads>>

\* C13, termination: the task a stop was requested of ends.
C13_Terminates == cancelReq ~> task = "done"

\* C13: after stop_broadcast_task the loop ends, wherever it was; it runs no
\* further tick and leaves the registry as it was when the cancellation took
\* effect; a stop with no loop running changes nothing.
C13_StopEndsLoop ==
    []C13_NoStrayCancel /\ [][C13_NoFurtherTick]_vars /\ C13_Terminates

\* the loop was stopped in the middle of a delivery pass over three
\* websockets, during the second send and after a first that raised: the
\* task is done, the third was not sent to and all three are still
\* registered
C13_Witness ==
    /\ task = "done"
    /\ ~cancelReq
    /\ Cardinality(regAtTick) = 3
    /\ Cardinality(C3_Attempted) = 2
    /\ Cardinality(failed) = 1
    /\ active = regAtTick

\* C14, the state part: a tick in which an Exception reached the except
\* branch of the loop left the task in the sleep of that branch (or
\* cancelled since), not ended by the error; a fault while the snapshot was
\* computed raised nothing: the tick goes on and sends the "error" payload.
C14_ErrorCaught ==
    /\ raisedTick # 0 =>
           /\ task \in {"sleeping", "done"}
           /\ payloads = {}
           /\ live = IF task = "done" THEN 0 ELSE 1
    /\ task = "sending" /\ data.type = "error" =>
           /\ raisedTick = 0
           /\ payloads = {Serialize(GetRealtimeData(version, TRUE))}

\* C14, the step part: the step in which a tick raises ends in the sleep,
\* and the task ends by a cancellation only.
C14_LoopSurvives ==
    /\ raisedTick' # raisedTick /\ raisedTick' # 0 =>
           /\ task' = "sleeping"
           /\ ~cancelReq'
    /\ task # "done" /\ task' = "done" => cancelReq /\ raisedTick' = raisedTick

\* C14, the next tick: after a tick that raised, the loop runs its next
\* tick, unless the task is stopped first.
C14_NextTickRuns ==
    \A k \in {1, 2} :
        (raisedTick = k /\ task = "sleeping") ~>
            (raisedTick # k \/ task = "done")

\* C14: an Exception inside a tick does not end the loop, which sleeps and
\* runs the next tick; a fault of the snapshot computation becomes a payload
\* of type "error".
C14_LoopOutlivesError ==
    []C14_ErrorCaught /\ [][C14_LoopSurvives]_vars /\ C14_NextTickRuns

\* two ticks in a row raised: the loop ran the second one after the first
\* had raised, and sleeps again, not stopped
C14_Witness ==
    /\ task = "sleeping"
    /\ raisedTick = 2
    /\ regAtTick # {}
    /\ ~cancelReq

-----------------------------------------------------------------------------
(* Claims about websocket_realtime (specification SpecHandler).            *)

\* the types of a payload get_realtime_data returns
C15_SnapshotTypes == {"realtime_update", "error"}

\* C15, the state part: the handler of a websocket that has connected has
\* sent the welcome, with the configured interval, first, and the initial
\* snapshot second, each on its own websocket and on no other.
C15_WelcomeThenSnapshot ==
    \A w \in Sockets :
        /\ \A i \in 1..Len(hsent[w]) : hsent[w][i].to = {w}
        /\ hpc[w] = "new" => hsent[w] = <<>> /\ w \notin active
        /\ hpc[w] \in {"welcome", "initial"} =>
               /\ Len(hsent[w]) >= 1
               /\ hsent[w][1].type = "welcome"
               /\ hsent[w][1].body = ToString(WEBSOCKET_BROADCAST_INTERVAL)
        /\ hpc[w] = "welcome" => Len(hsent[w]) = 1
        /\ hpc[w] = "initial" =>
               /\ Len(hsent[w]) = 2
               /\ hsent[w][2].type \in C15_SnapshotTypes
        /\ hpc[w] = "welcome" => ENABLED HandlerSent(w, FALSE)

\* C15, the step part: the websocket is in the registry when its welcome is
\* sent; the initial snapshot is taken of the usage data as it is when the
\* welcome has been sent, whatever the loop is doing; and the handler of one
\* websocket adds nothing to what the handler of another has sent.
C15_ConnectSteps ==
    \A w \in Sockets :
        /\ hpc[w] = "new" /\ hpc'[w] = "welcome" =>
               /\ w \in active'
               /\ \A o \in Sockets \ {w} : hsent'[o] = hsent[o]
        /\ hpc[w] = "welcome" /\ hpc'[w] = "initial" =>
               /\ hsent'[w][1] = hsent[w][1]
               /\ hsent'[w][2].type = "realtime_update" =>
                      hsent'[w][2].body = version
               /\ \A o \in Sockets \ {w} : hsent'[o] = hsent[o]
               /\ UNCHANGED <<active, loopVars>>

\* C15: on connect the websocket is registered, then sent the welcome with
\* the broadcast interval, then one fresh snapshot, without a tick in
\* between being needed; no other websocket is sent either message.
C15_ConnectSequence == []C15_WelcomeThenSnapshot /\ [][C15_ConnectSteps]_vars

\* a second client has connected and was sent the welcome and a snapshot of
\* the changed usage data while the loop had not yet run a tick
C15_Witness ==
    /\ hpc["w2"] = "initial"
    /\ hpc["w1"] = "receiving"
    /\ hsent["w2"][2].body = "v1"
    /\ task = "pending"
    /\ active = {"w1", "w2"}

\* the positions of a handler between its registration and its end
C16_Running == {"welcome", "initial", "receiving", "pong", "refresh"}

\* C16, the state part: a websocket whose handler has ended is not in the
\* registry, and the handler of a websocket that a tick has removed already
\* can end all the same.
C16_EndedNotRegistered ==
    \A w \in Sockets :
        /\ hpc[w] = "closed" => w \notin active
        /\ hpc[w] \in C16_Running /\ w \notin active => ENABLED HandlerEnds(w)

\* C16, the step part: the step that ends the handler of w takes w out of
\* the registry and nothing else, and changes nothing when w is not in it.
C16_RemovesExactly ==
    \A w \in Sockets :
        hpc[w] # "closed" /\ hpc'[w] = "closed" =>
            /\ active' = active \ {w}
            /\ w \notin active => active' = active
            /\ UNCHANGED loopVars

\* C16: disconnect removes exactly its websocket, also when it is absent
\* already, and every handler that ends has called it.
C16_DisconnectExact == []C16_EndedNotRegistered /\ [][C16_RemovesExactly]_vars

\* a pass is over in which two sends raised: one of the two handlers has
\* ended, the other still runs with its websocket out of the registry, and
\* the third websocket is registered as before
C16_Witness ==
    /\ task = "sleeping"
    /\ failed = {"w1", "w3"}
    /\ hpc["w1"] = "closed"
    /\ hpc["w3"] = "receiving"
    /\ hpc["w2"] = "receiving"
    /\ active = {"w2"}

\* C17, the state part: what the handler of w has sent since its latest
\* inbound message is one pong for a "ping", one snapshot for a "refresh"
\* and nothing for any other message, on the websocket w and no other.
C17_OneReply ==
    \A w \in Sockets :
        /\ received[w] = "ping" =>
               hsent[w] = <<[to |-> {w}, type |-> "pong", body |-> "none"]>>
        /\ received[w] = "refresh" =>
               /\ Len(hsent[w]) = 1
               /\ hsent[w][1].to = {w}
               /\ hsent[w][1].type \in C15_SnapshotTypes
        /\ received[w] \notin {"none", "ping", "refresh"} => hsent[w] = <<>>
        /\ hpc[w] = "pong" => received[w] = "ping"
        /\ hpc[w] = "refresh" => received[w] = "refresh"

\* C17, the step part: the step in which the handler of w takes an inbound
\* message leaves the registry, the loop and what the other handlers sent
\* as they are, and the snapshot it sends for a "refresh" is taken of the
\* usage data as it is then.
C17_InboundStep ==
    \A w \in Sockets :
        (/\ hpc[w] = "receiving"
         /\ hpc'[w] # "closed"
         /\ <<hpc'[w], hsent'[w], received'[w]>>
                # <<hpc[w], hsent[w], received[w]>>) =>
            /\ UNCHANGED <<active, loopVars, version>>
            /\ \A o \in Sockets \ {w} :
                   hsent'[o] = hsent[o] /\ received'[o] = received[o]
            /\ hpc'[w] = "refresh" /\ hsent'[w][1].type = "realtime_update" =>
                   hsent'[w][1].body = version

\* C17: a "ping" is answered by exactly one pong and a "refresh" by exactly
\* one fresh snapshot, to the sender alone; any other message gets no
\* reply; none changes the registry.
C17_InboundReplies == []C17_OneReply /\ [][C17_InboundStep]_vars

\* a client asked for a refresh during a delivery pass and is being sent a
\* snapshot of the usage data as they are now, while the pass still
\* delivers the text of the older snapshot of the tick
C17_Witness ==
    /\ received["w1"] = "refresh"
    /\ hpc["w1"] = "refresh"
    /\ hsent["w1"][1].body = "v1"
    /\ task = "sending"
    /\ payloads = {Serialize(GetRealtimeData("v0", FALSE))}
    /\ received["w2"] = "other"

-----------------------------------------------------------------------------
(* The statistics (specification SpecStats)                                *)

\* the sum of the counter `field` over the records of usage at the
\* positions I
C18_Counter(I, field) == C5_Sum(I, [i \in 1..Len(usage) |-> usage[i][field]])

\* the breakdown b is that of the records at the positions I
C18_BreakdownOf(b, I) ==
    /\ b.input_tokens = C18_Counter(I, "input_tokens")
    /\ b.output_tokens = C18_Counter(I, "output_tokens")
    /\ b.cache_creation_tokens = C18_Counter(I, "cache_creation_tokens")
    /\ b.cache_read_tokens = C18_Counter(I, "cache_read_tokens")
    /\ b.total_tokens =
           b.input_tokens + b.output_tokens + b.cache_creation_tokens
               + b.cache_read_tokens
    /\ I = {} =>
           b = [input_tokens |-> 0, output_tokens |-> 0,
                cache_creation_tokens |-> 0, cache_read_tokens |-> 0,
                total_tokens |-> 0]

\* the positions of the records of the date whose text is `text`
C18_OfDate(text) ==
    {i \in 1..Len(usage) : IsoFormat(DateOf(usage[i].timestamp)) = text}

\* the positions of the records of the model group `model`
C18_OfModel(model) ==
    {i \in 1..Len(usage) :
        (IF usage[i].model = "" THEN "unknown" ELSE usage[i].model) = model}

\* C18: at every level of aggregation (the breakdown of a record list, of
\* a day, of each model group, of each entry of the history) the four
\* component sums are the sums of the counters of the records aggregated
\* and total_tokens is the sum of the four components; no record gives the
\* all-zero breakdown.
C18_TotalIsSumOfParts ==
    /\ apc = "breakdown" => C18_BreakdownOf(answer, 1..Len(usage))
    /\ apc = "daily" => C18_BreakdownOf(answer.tokens, C18_OfDate(answer.date))
    /\ apc = "models" =>
           \A k \in 1..Len(answer.models) :
               C18_BreakdownOf(answer.models[k].tokens,
                               C18_OfModel(answer.models[k].model))
    /\ apc = "history" =>
           \A k \in 1..Len(answer.daily_stats) :
               C18_BreakdownOf(answer.daily_stats[k].tokens,
                               C18_OfDate(answer.daily_stats[k].date))

\* the statistics by model of two records with all four counters set, one
\* of a named model and one without a model: two groups of 15 tokens each
C18_Witness ==
    /\ apc = "models"
    /\ Len(usage) = 2
    /\ answer.total_models = 2
    /\ \A k \in 1..2 : answer.models[k].tokens.total_tokens = 15
    /\ \A k \in 1..2 : answer.models[k].tokens.cache_read_tokens = 8

\* the positions of the records of timestamp >= now - minutesWindow
C19_InWindow ==
    {i \in 1..Len(usage) : usage[i].timestamp >= nowMin - DefaultMinutesWindow}

\* the tokens of the records in the window
C19_Total ==
    C5_Sum(C19_InWindow,
           [i \in 1..Len(usage) |->
               usage[i].input_tokens + usage[i].output_tokens
                   + usage[i].cache_creation_tokens
                   + usage[i].cache_read_tokens])

\* the minutes from the earliest record in the window to now
C19_Minutes ==
    LET first == CHOOSE i \in C19_InWindow :
                     \A j \in C19_InWindow :
                         usage[i].timestamp <= usage[j].timestamp
    IN nowMin - usage[first].timestamp

\* max(1, minutes from the earliest record in the window to now)
C19_Divisor == IF C19_Minutes >= 1 THEN C19_Minutes ELSE 1

\* tokens_per_minute (in hundredths) is the quotient itself
C19_ExactRate ==
    answer.tokens_per_minute * C19_Divisor = 100 * C19_Total

\* tokens_per_minute (in hundredths) is a hundredth nearest to the quotient
C19_RoundedRate ==
    LET off == answer.tokens_per_minute * C19_Divisor - 100 * C19_Total
    IN 2 * (IF off >= 0 THEN off ELSE 0 - off) <= C19_Divisor

\* what the claim says of the burn rate besides the value of the quotient
C19_RateBounds ==
    /\ C19_InWindow = {} =>
           answer.tokens_per_minute = 0 /\ answer.cost_per_hour = 0
    /\ C19_InWindow # {} =>
           /\ C19_Divisor >= 1
           /\ answer.tokens_per_minute <= 100 * C19_Total
           /\ (Len(usage) = 1 /\ usage[1].timestamp = nowMin) =>
                  answer.tokens_per_minute = 100 * C19_Total

\* C19 as stated: no record in the window gives both rates zero; otherwise
\* tokens_per_minute is the token total of the window divided by
\* max(1, minutes from the earliest record of the window to now), the
\* divisor is at least 1, the rate is at most the total, and one record
\* stamped now gives its own token total.
C19_BurnRateIsQuotient ==
    apc = "burn_rate" =>
        /\ C19_RateBounds
        /\ C19_InWindow # {} => C19_ExactRate

\* C19, amended: the same, with tokens_per_minute the quotient rounded to
\* two decimals.
C19_BurnRateIsRoundedQuotient ==
    apc = "burn_rate" =>
        /\ C19_RateBounds
        /\ C19_InWindow # {} => C19_RoundedRate

\* a record one minute older than the window and one of 15 tokens seven
\* minutes old: the rate is 2.14, while 15 / 7 is 2.142857...
C19_Witness ==
    /\ apc = "burn_rate"
    /\ nowMin = 2890
    /\ Len(usage) = 2
    /\ usage[1].timestamp = 2859 /\ usage[1].input_tokens = 1
    /\ usage[2].timestamp = 2883 /\ usage[2].input_tokens = 1
    /\ C19_Total = 15
    /\ C19_Divisor = 7
    /\ answer.tokens_per_minute = 214

\* the number of the day of the entry k of the history, read from its date
C20_Day(k) == answer.daily_stats[k].date[2] - 1

\* the dates of the records
C20_Dates == {DateOf(usage[i].timestamp) : i \in 1..Len(usage)}

\* the entries of the history of the date of the record i
C20_EntriesOf(i) ==
    {k \in 1..Len(answer.daily_stats) :
        C20_Day(k) = DateOf(usage[i].timestamp)}

\* the tokens of all records
C20_AllTokens ==
    C5_Sum(1..Len(usage),
           [i \in 1..Len(usage) |->
               usage[i].input_tokens + usage[i].output_tokens
                   + usage[i].cache_creation_tokens
                   + usage[i].cache_read_tokens])

\* C20: in the history every record is counted in exactly one daily entry,
\* there is one entry for each date that has a record and none else, the
\* entries ascend strictly by date, total_tokens is the sum of the token
\* totals of the entries and the token total of all records,
\* days_with_data is the number of entries, and date_range holds the dates
\* of the first and the last entry, or nothing twice without a record.
C20_HistoryByDay ==
    apc = "history" =>
        LET ds == answer.daily_stats
            n == Len(ds)
        IN  /\ \A i \in 1..Len(usage) : Cardinality(C20_EntriesOf(i)) = 1
            /\ \A k \in 1..n :
                   ds[k].total_requests =
                       Cardinality({i \in 1..Len(usage) :
                                       C20_EntriesOf(i) = {k}})
            /\ {C20_Day(k) : k \in 1..n} = C20_Dates
            /\ n = Cardinality(C20_Dates)
            /\ \A k \in 1..(n - 1) : C20_Day(k) < C20_Day(k + 1)
            /\ answer.total_tokens =
                   C5_Sum(1..n, [k \in 1..n |-> ds[k].tokens.total_tokens])
            /\ answer.total_tokens = C20_AllTokens
            /\ answer.days_with_data = n
            /\ IF usage = <<>>
               THEN answer.date_range = [start |-> <<>>, end |-> <<>>]
               ELSE answer.date_range =
                        [start |-> <<ds[1].date>>, end |-> <<ds[n].date>>]

\* the history of two records given the later first, of different dates:
\* two entries, the earlier date first, 30 tokens in all
C20_Witness ==
    /\ apc = "history"
    /\ Len(usage) = 2
    /\ usage[1].timestamp = 2883
    /\ usage[2].timestamp = 1000
    /\ answer.days_with_data = 2
    /\ answer.daily_stats[1].date = IsoFormat(0)
    /\ answer.date_range.end = <<IsoFormat(2)>>
    /\ answer.total_tokens = 30

\* the groups of the answer that count the record i: those of its model
\* id, or of "unknown" when it has none
C21_GroupsOf(i) ==
    {k \in 1..Len(answer.models) :
        answer.models[k].model =
            (IF usage[i].model = "" THEN "unknown" ELSE usage[i].model)}

\* the tokens of the records at the positions I
C21_Tokens(I) ==
    C5_Sum(I, [i \in 1..Len(usage) |->
                  usage[i].input_tokens + usage[i].output_tokens
                      + usage[i].cache_creation_tokens
                      + usage[i].cache_read_tokens])

\* C21: in the statistics by model every record is counted in exactly one
\* group, that of its model id or "unknown" when it has none; with a token
\* total above 0 the percentage of a group is its tokens / all tokens * 100
\* (here: the hundredth nearest to it), each share lies in [0, 100] and the
\* shares before rounding sum to 100, the group totals summing to the
\* total; with a total of 0 every percentage is 0; without a record the
\* list is empty and the period has no bounds.
C21_ModelShares ==
    apc = "models" =>
        LET ms == answer.models
            n == Len(ms)
            all == C21_Tokens(1..Len(usage))
            group(k) == {i \in 1..Len(usage) : C21_GroupsOf(i) = {k}}
        IN  /\ \A i \in 1..Len(usage) : Cardinality(C21_GroupsOf(i)) = 1
            /\ \A k \in 1..n :
                   /\ ms[k].total_requests = Cardinality(group(k))
                   /\ ms[k].total_requests > 0
                   /\ ms[k].tokens.total_tokens = C21_Tokens(group(k))
                   /\ ms[k].tokens.total_tokens >= 0
                   /\ ms[k].tokens.total_tokens <= all
                   /\ ms[k].percentage_of_total >= 0
                   /\ ms[k].percentage_of_total <= 100 * 100
                   /\ IF all > 0
                      THEN LET off == ms[k].percentage_of_total * all
                                          - 100 * 100 * ms[k].tokens.total_tokens
                           IN 2 * (IF off >= 0 THEN off ELSE 0 - off) <= all
                      ELSE ms[k].percentage_of_total = 0
            /\ C5_Sum(1..n, [k \in 1..n |-> ms[k].tokens.total_tokens]) = all
            /\ answer.total_models = n
            /\ usage = <<>> =>
                   /\ ms = <<>>
                   /\ answer.period_start = <<>>
                   /\ answer.period_end = <<>>

\* two records of 15 tokens, one of a named model and one without a model
\* id: the groups "opus" and "unknown" have 50 percent each
C21_Witness ==
    /\ apc = "models"
    /\ Len(usage) = 2
    /\ usage[1].model = "" /\ usage[2].model = "opus"
    /\ answer.models[1].model = "unknown"
    /\ answer.models[2].model = "opus"
    /\ \A k \in 1..2 : answer.models[k].percentage_of_total = 50 * 100

-----------------------------------------------------------------------------
(* Today and a given day (specification SpecToday)                         *)

\* the records get_daily_stats selects when it is asked for today
C22_OfToday ==
    SelectSeq(usage, LAMBDA e : DateOf(e.timestamp) = Today(nowMin, zone))

\* the record e is of today by the date of its timestamp as it stands, or,
\* when the timestamp carries a zone, by its date in the local zone
C22_TodayInUtc(e) == DateOf(e.timestamp) = Today(nowMin, zone)
C22_TodayInLocal(e) ==
    e.tzinfo /\ DateOf(e.timestamp + zone) = Today(nowMin, zone)

\* C22: on the same records and the same clock get_today_stats() selects
\* the records get_daily_stats(today) selects and returns the same
\* statistics, and the hour a selected record is counted under is its hour
\* in a zone in which its date is today.
C22_SameDayRule ==
    apc = "today" =>
        /\ answer = DailyStats(Today(nowMin, zone), C22_OfToday)
        /\ \A i \in 1..Len(usage) :
               (C22_TodayInUtc(usage[i]) \/ C22_TodayInLocal(usage[i])) =>
                   \/ /\ C22_TodayInUtc(usage[i])
                      /\ HourOf(usage[i].timestamp)
                             \in DOMAIN answer.hourly_distribution
                   \/ /\ C22_TodayInLocal(usage[i])
                      /\ HourOf(usage[i].timestamp + zone)
                             \in DOMAIN answer.hourly_distribution

-----------------------------------------------------------------------------
(* get_plan_usage (specification SpecPlan)                                  *)

\* the blocks of the analysis the call has used: those of the entry of the
\* cache after the call, none when the entry has no analysis
C23_Blocks ==
    IF planCache # None /\ The(planCache).present
           /\ The(planCache).blocks # None
    THEN The(The(planCache).blocks)
    ELSE <<>>

\* the positions of the blocks flagged active
C23_Flagged == {i \in 1..Len(C23_Blocks) : C23_Blocks[i].isActive}

\* the response of a call without an active block, at the time n
C23_NoActiveBlock(r, n) ==
    /\ r.raised = "none"
    /\ r.cost_usage.current = 0 /\ r.cost_usage.percentage = 0
    /\ r.token_usage.current = 0 /\ r.token_usage.percentage = 0
    /\ r.message_usage.current = 0 /\ r.message_usage.percentage = 0
    /\ DOMAIN r.model_distribution = {}
    /\ r.reset_info.reset_time % 60 = 0
    /\ r.reset_info.reset_time > n
    /\ r.reset_info.reset_time - n <= 60
    /\ r.reset_info.remaining_minutes = r.reset_info.reset_time - n

\* after the call: without a flagged block the result is the one above;
\* with one, a result has the cost, tokens and messages of the first
C23_State ==
    apc = "plan" =>
        /\ C23_Flagged = {} => C23_NoActiveBlock(answer, nowMin)
        /\ (C23_Flagged # {} /\ answer.raised = "none") =>
               LET first == C23_Blocks[CHOOSE i \in C23_Flagged :
                                           \A j \in C23_Flagged : i <= j]
               IN /\ answer.cost_usage.current = first.costUSD
                  /\ answer.token_usage.current = first.totalTokens
                  /\ answer.message_usage.current = first.messageCount

\* a call in which analyze_usage raises leaves the cache as it was and
\* returns the result of no active block
C23_Step ==
    (/\ apc = "start" /\ apc' = "plan"
     /\ analyzer.outcome = "raise"
     /\ planCache = None \/ ~The(planCache).present) =>
        /\ planCache' = planCache
        /\ C23_NoActiveBlock(answer', nowMin)

\* C23: when the analyzer raises, returns no block or none flagged active,
\* get_plan_usage returns a result with cost, tokens and messages 0,
\* percentages 0, no model distribution and the top of the next hour as
\* reset time (0 < remaining_minutes <= 60), and a failure of the analyzer
\* is not stored in the cache; with a flagged block the usage values are
\* those of the first one in the list.
C23_NoActiveBlockFallback == []C23_State /\ [][C23_Step]_vars

\* the analyzer raised on an empty cache at ten past the hour, with a
\* record of the last minutes in the source: the result has no usage, a
\* burn rate, and resets in 50 minutes; the cache is still empty
C23_Witness ==
    /\ apc = "plan"
    /\ analyzer.outcome = "raise"
    /\ planCache = None
    /\ nowMin = 2890
    /\ answer.raised = "none"
    /\ answer.token_usage.current = 0
    /\ answer.reset_info.reset_time = 2940
    /\ answer.reset_info.remaining_minutes = 50
    /\ answer.burn_rate.tokens_per_minute > 0

\* the text of the time of day of the minute t on the 12-hour clock
C24_TimeOfDay(t) ==
    LET hour24 == (t \div 60) % 24
        hour12 == IF hour24 % 12 = 0 THEN 12 ELSE hour24 % 12
    IN <<hour12, ":", t % 60, " ", IF hour24 >= 12 THEN "PM" ELSE "AM">>

\* C24: a result of get_plan_usage has a prediction tokens_run_out exactly
\* when the tokens_per_minute of its burn rate is above 0 and the current
\* tokens are below the token limit, and then it is the time of day of
\* now + (token_limit - current tokens) / tokens_per_minute; in every
\* other case there is none.
C24_ExhaustionPrediction ==
    (apc = "plan" /\ answer.raised = "none") =>
        LET rate == answer.burn_rate.tokens_per_minute
            current == answer.token_usage.current
            limit == answer.plan.token_limit
        IN IF rate > 0 /\ current < limit
           THEN answer.predictions.tokens_run_out =
                    <<C24_TimeOfDay(nowMin + (100 * (limit - current)) \div rate)>>
           ELSE answer.predictions.tokens_run_out = <<>>

\* ten past midnight, 15 of the 20 tokens of the plan used and a burn rate
\* of 2.14 tokens a minute: the 5 tokens left run out at 12:12 AM
C24_Witness ==
    /\ apc = "plan"
    /\ nowMin = 2890
    /\ answer.raised = "none"
    /\ answer.plan.token_limit = 20
    /\ answer.token_usage.current = 15
    /\ answer.burn_rate.tokens_per_minute = 214
    /\ answer.predictions.tokens_run_out = <<<<12, ":", 12, " ", "AM">>>>

\* C25: whatever startTime and endTime of the active block are
\* (well-formed, missing, or malformed: no timestamp, of a wrong type or
\* without a zone), get_plan_usage returns a result; its reset_time is the
\* endTime when that is well-formed, whatever startTime is, and
\* now + windowHours when endTime is missing or malformed.
C25_TimesNeverAbort ==
    (apc = "plan" /\ C23_Flagged # {}) =>
        LET block == C23_Blocks[CHOOSE i \in C23_Flagged :
                                    \A j \in C23_Flagged : i <= j]
        IN  /\ answer.raised = "none"
            /\ answer.reset_info.reset_time =
                   IF block.endTime.kind = "aware"
                   THEN block.endTime.at
                   ELSE nowMin + SESSION_WINDOW_HOURS * 60

\* the positions of the records loaded for the session window, and of
\* those among them of the model group `model`
C30_InWindow ==
    {i \in 1..Len(usage) :
        usage[i].timestamp >= nowMin - SESSION_WINDOW_HOURS * 60}

C30_OfModel(model) ==
    {i \in C30_InWindow :
        (IF usage[i].model = "" THEN "unknown" ELSE usage[i].model) = model}

\* the total tokens, of all four counters, of the records at I
C30_Tokens(I) ==
    C5_Sum(I, [i \in 1..Len(usage) |->
                  usage[i].input_tokens + usage[i].output_tokens
                      + usage[i].cache_creation_tokens
                      + usage[i].cache_read_tokens])

\* C30: the model distribution of get_plan_usage is the modelDistribution
\* of the active block when the block carries one; otherwise it has, for
\* each model of the records of the session window (no model id counting
\* as "unknown"), the total tokens of the model divided by the total
\* tokens of all those records, times 100 (here: a tenth of a percent
\* nearest to it), and 0 for every model when that total is 0.
C30_ModelDistribution ==
    (apc = "plan" /\ C23_Flagged # {} /\ answer.raised = "none") =>
        LET block == C23_Blocks[CHOOSE i \in C23_Flagged :
                                    \A j \in C23_Flagged : i <= j]
            all == C30_Tokens(C30_InWindow)
            shares == answer.model_distribution
        IN IF block.modelDistribution # <<>>
           THEN shares = block.modelDistribution[1]
           ELSE /\ DOMAIN shares =
                       {IF usage[i].model = "" THEN "unknown"
                        ELSE usage[i].model : i \in C30_InWindow}
                /\ \A model \in DOMAIN shares :
                       IF all > 0
                       THEN LET off == shares[model] * all
                                         - 1000 * C30_Tokens(C30_OfModel(model))
                            IN 2 * (IF off >= 0 THEN off ELSE 0 - off) <= all
                       ELSE shares[model] = 0

-----------------------------------------------------------------------------
(* The cache under concurrent callers (specifications Spec and SpecLoad)    *)

\* C26: operations on different keys do not block each other: while a
\* thread is inside get for one key, a get or a set of another thread for
\* a different key can enter its with block.
C26_NoCrossKeyBlocking ==
    \A t \in Threads, u \in Threads, k2 \in Keys :
        (/\ t # u
         /\ pc[t] \in {"get_read", "get_exit"}
         /\ key[t] # k2
         /\ Idle(u)) =>
            /\ ENABLED GetEnter(u, k2)
            /\ ENABLED Set(u, k2, SomeRecords, CACHE_TTL)

\* no two running calls of _load_entries for one key have both called the
\* source at the same reading of the clock, when no entry of the key can
\* have expired between the two calls
C27_OncePerPeriod ==
    \A t \in Threads, u \in Threads :
        (/\ t # u
         /\ call[t] = "load" /\ call[u] = "load"
         /\ key[t] = key[u]
         /\ srcCalls[t] > 0 /\ srcCalls[u] > 0) =>
            readAt[t] # readAt[u]

\* a store does not replace the data of an entry by data read from the
\* source earlier
C27_NewerKept ==
    \A k \in Keys :
        (cache[k] # None /\ cache'[k] # None /\ cache'[k] # cache[k]
             /\ origin[k] # None /\ origin'[k] # None) =>
            The(origin'[k]) >= The(origin[k])

\* C27: under every interleaving of concurrent callers of _load_entries
\* the source is called at most once for a key between two expiries of
\* the entry of the key, and an entry is never overwritten by a value that
\* was loaded earlier than the one it holds.
C27_SourceCallsBounded == []C27_OncePerPeriod /\ [][C27_NewerKept]_vars

\* C28: the records _load_entries returns were read from the source at
\* most CACHE_TTL seconds before the moment they are returned.
C28_StalenessBounded ==
    [][\A t \in Threads :
           (pc[t] # "load_ret" /\ pc'[t] = "load_ret") =>
               /\ readAt'[t] # None
               /\ clock' - The(readAt'[t]) <= CACHE_TTL]_vars

-----------------------------------------------------------------------------
(* Claims about the life cycle of the broadcast task (specification        *)
(* SpecBroadcast).                                                         *)

\* a step in which start_broadcast_task() is called: by websocket_realtime
\* for a client that connects, or by lifespan at startup
C29_StartCalled ==
    \/ \E w \in Sockets : hpc[w] = "new" /\ hpc'[w] = "welcome"
    \/ NoLoopRunning(task) /\ task' = "pending"

\* _broadcast_task is not done when start_broadcast_task() returns
C29_TaskNotDone == C29_StartCalled => LoopRunning(task')

\* no cancellation waits to end the task at its next await
C29_NoCancelPending == C29_StartCalled => ~cancelReq'

\* C29: when start_broadcast_task() returns, whatever calls of
\* start_broadcast_task and stop_broadcast_task came before it (a stop
\* right before it included), a broadcast loop is running that goes on
\* ticking: _broadcast_task is not done and is not about to be cancelled.
C29_StartLeavesLoopTicking ==
    [][C29_TaskNotDone /\ C29_NoCancelPending]_vars

====
